---- MODULE Spec2Model ----
(***************************************************************************)
(* Verification model of browsint: the OSINT profile store (entities,      *)
(* osint_profiles, contacts), the polite retrying WebFetcher, the Shodan   *)
(* batch adapter, validate_domain and the robots.txt parser.               *)
(***************************************************************************)
EXTENDS Integers, Sequences, FiniteSets, TLC

VARIABLES
    entities,        \* rows of table entities        (osint store)
    osint_profiles,  \* rows of table osint_profiles  (osint store)
    contacts,        \* rows of table contacts        (osint store)
    db_now,          \* the store's CURRENT_TIMESTAMP reading, in whole seconds
    dbOp,            \* the last store operation: its arguments and its result
    returned,        \* id returned by the latest resolve of each (identifier, type)
    \* ---- WebFetcher
    delay_min,          \* self.delay_range[0], in seconds
    last_request_time,  \* self.last_request_time
    cache_enabled,      \* self.cache_enabled
    cache,              \* files of the cache directory: digest -> stored text
    f_now,              \* time.time()
    fpc,                \* where the running fetch call stands
    fcall,              \* the running (or last) call: arguments, progress, result
    fhist,              \* what earlier calls of this fetcher left behind
    \* ---- fetch_shodan
    sh_pc,              \* where the running fetch_shodan call stands
    ip_addresses,       \* argument ip_addresses
    api_key,            \* argument api_key ("" when missing)
    results,            \* local results
    sh_i,               \* position of the for loop in ip_addresses
    sh_outcomes,        \* what api.host did for each address queried so far
    sh_ret,             \* the returned dictionary
    \* ---- validate_domain
    vd_input,           \* argument domain, as characters
    vd_pc,              \* "call" before the function ran, "done" after
    vd_result,          \* the returned pair
    \* ---- RobotsParser.parse
    robots_content,     \* argument robots_content, as lines of characters
    rb_pc,              \* where parse stands
    rb_i,               \* index of the next line
    current_agent,      \* local current_agent
    in_relevant_agent,  \* local in_relevant_agent
    robots_data,        \* local data (RobotsData)
    rb_from,            \* the lines that changed data, rules and sitemaps
    \* ---- helper functions called on their own (is_allowed, the filters, the extractors)
    fn_args,     \* the arguments of the call
    fn_pc,       \* "call" before the function ran, "done" after
    fn_result,   \* the returned value
    \* ---- fetch_domain_osint (scraper/utils/osint_sources.py)
    osint_target,     \* the hostname or address profiled
    osint_api_keys,   \* api_keys: service -> key
    sources,          \* what each source, and the user at the prompt, answers when asked
    osint_pc,         \* "off", "fetch_domain_osint" or "done"
    osint_out,        \* the dict returned, and the adapters called in order
    \* ---- fetch_hunterio and check_email_breaches (scraper/utils/clients.py)
    ad_pc,         \* "off", "idle" or "done"
    ad_call,       \* the adapter called and its arguments
    ad_requests,   \* the requests sent to the external service
    ad_ret,        \* the value returned
    \* ---- profile_domain / profile_email (scraper/extractors/osint_extractor.py)
    pf_api_keys,   \* self.api_keys
    pf_calls,      \* number of calls made so far
    pf_call,       \* the last call: method, input, and the rows before it
    pf_ret,        \* what the last call returned
    pf_adapters,   \* the source adapters the last call invoked, in order
    \* ---- DatabaseManager (db/manager.py)
    connections,    \* self.connections: store -> connection, 0 for None or no entry
    live,           \* the connections opened and not closed, by store
    opened,         \* number of connections opened so far
    committed,      \* the rows each store holds durably
    view,           \* the rows the connection of each store sees
    tx,             \* the transaction in progress or last finished
    last_connect,   \* the last connect call and its result
    \* ---- two resolvers on one store file
    rc_entities,   \* committed rows of table entities
    rc_args,       \* resolver -> <<identifier, entity_type>> of its call
    rc_pc,         \* resolver -> the statement it is about to run, or how its call ended
    rc_tx,         \* resolver -> the rows its open transaction has inserted
    rc_ret,        \* resolver -> the id its call returned (0: none)
    rc_lock        \* the resolver holding the write lock of the file (0: nobody)

dbVars == <<entities, osint_profiles, contacts, db_now, dbOp, returned>>

fetchVars == <<delay_min, last_request_time, cache_enabled, cache, f_now, fpc, fcall, fhist>>

shodanVars == <<sh_pc, ip_addresses, api_key, results, sh_i, sh_outcomes, sh_ret>>

validateVars == <<vd_input, vd_pc, vd_result>>

robotsVars == <<robots_content, rb_pc, rb_i, current_agent, in_relevant_agent, robots_data, rb_from>>

pureVars == <<fn_args, fn_pc, fn_result>>

osintVars == <<osint_target, osint_api_keys, sources, osint_pc, osint_out>>

adapterVars == <<ad_pc, ad_call, ad_requests, ad_ret>>

intakeVars == <<pf_api_keys, pf_calls, pf_call, pf_ret, pf_adapters>>

managerVars == <<connections, live, opened, committed, view, tx, last_connect>>

raceVars == <<rc_entities, rc_args, rc_pc, rc_tx, rc_ret, rc_lock>>

\* the variables outside each component
exceptDb == <<fetchVars, shodanVars, validateVars, robotsVars, pureVars, osintVars, adapterVars, intakeVars, managerVars, raceVars>>

exceptFetch == <<dbVars, shodanVars, validateVars, robotsVars, pureVars, osintVars, adapterVars, intakeVars, managerVars, raceVars>>

exceptShodan == <<dbVars, fetchVars, validateVars, robotsVars, pureVars, osintVars, adapterVars, intakeVars, managerVars, raceVars>>

exceptValidate == <<dbVars, fetchVars, shodanVars, robotsVars, pureVars, osintVars, adapterVars, intakeVars, managerVars, raceVars>>

exceptRobots == <<dbVars, fetchVars, shodanVars, validateVars, pureVars, osintVars, adapterVars, intakeVars, managerVars, raceVars>>

exceptPure == <<fetchVars, shodanVars, validateVars, robotsVars, dbVars, osintVars, adapterVars, intakeVars, managerVars, raceVars>>

exceptOsint == <<fetchVars, shodanVars, validateVars, robotsVars, pureVars, dbVars, adapterVars, intakeVars, managerVars, raceVars>>

exceptAdapter == <<fetchVars, shodanVars, validateVars, robotsVars, pureVars, osintVars, dbVars, intakeVars, managerVars, raceVars>>

exceptIntake == <<fetchVars, shodanVars, validateVars, robotsVars, pureVars, osintVars, adapterVars, dbVars, managerVars, raceVars>>

exceptDbIntake == <<fetchVars, shodanVars, validateVars, robotsVars, pureVars, osintVars, adapterVars, managerVars, raceVars>>

exceptManager == <<fetchVars, shodanVars, validateVars, robotsVars, pureVars, osintVars, adapterVars, intakeVars, dbVars, raceVars>>

exceptRace == <<fetchVars, shodanVars, validateVars, robotsVars, pureVars, osintVars, adapterVars, intakeVars, managerVars, dbVars>>

vars == <<entities, osint_profiles, contacts, db_now, dbOp, returned,
          delay_min, last_request_time, cache_enabled, cache, f_now, fpc, fcall, fhist,
          sh_pc, ip_addresses, api_key, results, sh_i, sh_outcomes, sh_ret,
          vd_input, vd_pc, vd_result,
          robots_content, rb_pc, rb_i, current_agent, in_relevant_agent, robots_data, rb_from,
          fn_args, fn_pc, fn_result,
          osint_target, osint_api_keys, sources, osint_pc, osint_out,
          ad_pc, ad_call, ad_requests, ad_ret,
          pf_api_keys, pf_calls, pf_call, pf_ret, pf_adapters,
          connections, live, opened, committed, view, tx, last_connect,
          rc_entities, rc_args, rc_pc, rc_tx, rc_ret, rc_lock>>

\* ------------------------------------------------------------------ bounds
MaxEntities == 3
MaxDbTime == 1
MaxProfiles == 2

\* ------------------------------------------------------------ small helpers
Null == "NULL"

Max(S) == CHOOSE m \in S : \A x \in S : x <= m

SeqRange(s) == {s[i] : i \in 1..Len(s)}

\* all orderings of a finite set, as sequences without repetition
Orderings(S) == {s \in [1..Cardinality(S) -> S] : SeqRange(s) = S}

Get(d, k, default) == IF k \in DOMAIN d THEN d[k] ELSE default

EmptyDict == [k \in {} |-> 0]

\* =================================================================
\*  Entity resolution: OSINTExtractor._get_or_create_entity
\* =================================================================
EntityTypes == {"domain", "email", "username"}

Identifiers == {"example.com", "acme.test", "bob@acme.test", "j.doe", "jdoe", ""}

DbEntityType(entity_type) == IF entity_type = "domain" THEN "company" ELSE "person"

DomainValueAlwaysNull(identifier, entity_type) == Null

DomainValue(identifier, entity_type) ==
    IF entity_type = "domain" THEN identifier ELSE Null

UniqueConflictNullsEqual(rows, type, name, domain) ==
    \E e \in rows : e.name = name /\ e.type = type /\ e.domain = domain

\* The uniqueness constraint of table entities on (name, type, domain), as SQLite
\* evaluates it: a NULL in a constrained column never equals another NULL, so a
\* row whose domain is NULL conflicts with no row.
UniqueConflict(rows, type, name, domain) ==
    \E e \in rows :
        /\ e.name = name
        /\ e.type = type
        /\ e.domain # Null /\ domain # Null /\ e.domain = domain

\* rowid of the next inserted row (INTEGER PRIMARY KEY, no deletions)
NextRowId(rows) == IF rows = {} THEN 1 ELSE Max({r.id : r \in rows}) + 1

\* INSERT OR IGNORE INTO entities (type, name, domain)
InsertOrIgnoreEntity(rows, type, name, domain) ==
    IF UniqueConflict(rows, type, name, domain)
    THEN [rows |-> rows, rowcount |-> 0, lastrowid |-> 0]
    ELSE [rows |-> rows \cup {[id |-> NextRowId(rows), type |-> type,
                               name |-> name, domain |-> domain]},
          rowcount |-> 1, lastrowid |-> NextRowId(rows)]

\* the three SELECT id FROM entities ... of the ignored-insert branch
SelectEntityIds(rows, identifier, type, domain) ==
    IF type = "company" /\ domain # Null /\ domain # ""
    THEN {e.id : e \in {x \in rows : x.name = identifier /\ x.type = type
                                      /\ x.domain = domain}}
    ELSE IF type = "person" /\ domain = Null
    THEN {e.id : e \in {x \in rows : x.name = identifier /\ x.type = type
                                      /\ x.domain = Null}}
    ELSE {e.id : e \in {x \in rows : x.name = identifier /\ x.type = type}}

\* _get_or_create_entity(identifier, entity_type), one transaction on "osint".
\* dbOp records the call: ret is the returned id (raised when ValueError leaves the
\* function instead), prevRet the id the previous call for the same arguments
\* returned (0: no such call), added whether a row was inserted.
ResolveOp(identifier, entity_type, ret, raised, added) ==
    [op |-> "resolve", identifier |-> identifier, entity_type |-> entity_type,
     ret |-> ret, raised |-> raised, added |-> added,
     prevRet |-> returned[<<identifier, entity_type>>]]

GetOrCreateEntity(identifier, entity_type) ==
    LET type == DbEntityType(entity_type)
        domain == DomainValue(identifier, entity_type)
        ins == InsertOrIgnoreEntity(entities, type, identifier, domain)
        found == SelectEntityIds(entities, identifier, type, domain)
    IN  /\ ins.rowcount = 0 \/ Cardinality(entities) < MaxEntities
        /\ IF ins.rowcount > 0
           THEN /\ entities' = ins.rows
                /\ dbOp' = ResolveOp(identifier, entity_type, ins.lastrowid, FALSE, TRUE)
                /\ returned' = [returned EXCEPT ![<<identifier, entity_type>>] = ins.lastrowid]
           ELSE IF found = {}
           THEN \* ValueError: the transaction rolls back
                /\ entities' = entities
                /\ dbOp' = ResolveOp(identifier, entity_type, 0, TRUE, FALSE)
                /\ returned' = returned
           ELSE \E id \in found :
                /\ entities' = entities
                /\ dbOp' = ResolveOp(identifier, entity_type, id, FALSE, FALSE)
                /\ returned' = [returned EXCEPT ![<<identifier, entity_type>>] = id]
        /\ UNCHANGED <<osint_profiles, contacts, db_now>>
        /\ UNCHANGED exceptDb

ResolveStep == \E identifier \in Identifiers, entity_type \in EntityTypes :
                   GetOrCreateEntity(identifier, entity_type)

\* the wall clock of the store moves on between operations (or does not: two
\* statements can run within one second of CURRENT_TIMESTAMP)
DbTick == /\ db_now < MaxDbTime
          /\ db_now' = db_now + 1
          /\ UNCHANGED <<entities, osint_profiles, contacts, dbOp, returned>>
          /\ UNCHANGED exceptDb

\* a fetcher that is constructed and never used
IdleFetch == /\ delay_min = 1
             /\ last_request_time = 0
             /\ cache_enabled = TRUE
             /\ cache = EmptyDict
             /\ f_now = 0
             /\ fpc = "idle"
             /\ fcall = [kind |-> "none"]
             /\ fhist = [calls |-> 0]

IdleShodan == /\ sh_pc = "off"
              /\ ip_addresses = <<>>
              /\ api_key = ""
              /\ results = EmptyDict
              /\ sh_i = 0
              /\ sh_outcomes = <<>>
              /\ sh_ret = EmptyDict

IdleValidate == /\ vd_input = <<>>
                /\ vd_pc = "off"
                /\ vd_result = EmptyDict

IdleRobots == /\ robots_content = <<>>
              /\ rb_pc = "off"
              /\ rb_i = 0
              /\ current_agent = <<>>
              /\ in_relevant_agent = FALSE
              /\ robots_data = EmptyDict
              /\ rb_from = EmptyDict

IdleDb == /\ entities = {}
          /\ osint_profiles = {}
          /\ contacts = {}
          /\ db_now = 0
          /\ dbOp = [op |-> "none"]
          /\ returned = [k \in Identifiers \X EntityTypes |-> 0]

IdlePure == /\ fn_args = EmptyDict
            /\ fn_pc = "off"
            /\ fn_result = EmptyDict

IdleOsint == /\ osint_target = <<>>
             /\ osint_api_keys = EmptyDict
             /\ sources = EmptyDict
             /\ osint_pc = "off"
             /\ osint_out = EmptyDict

IdleAdapter == /\ ad_pc = "off"
               /\ ad_call = EmptyDict
               /\ ad_requests = <<>>
               /\ ad_ret = EmptyDict

IdleIntake == /\ pf_api_keys = EmptyDict
              /\ pf_calls = 0
              /\ pf_call = [op |-> "none"]
              /\ pf_ret = EmptyDict
              /\ pf_adapters = <<>>

IdleManager == /\ connections = EmptyDict
               /\ live = EmptyDict
               /\ opened = 0
               /\ committed = EmptyDict
               /\ view = EmptyDict
               /\ tx = [pc |-> "none", n |-> 0]
               /\ last_connect = [db_name |-> "none"]

IdleRace == /\ rc_entities = {}
            /\ rc_args = <<>>
            /\ rc_pc = <<>>
            /\ rc_tx = <<>>
            /\ rc_ret = <<>>
            /\ rc_lock = 0

\* every component but one at rest
IdleExceptDb == IdleFetch /\ IdleShodan /\ IdleValidate /\ IdleRobots /\ IdlePure /\ IdleOsint /\ IdleAdapter /\ IdleIntake /\ IdleManager /\ IdleRace

IdleExceptFetch == IdleDb /\ IdleShodan /\ IdleValidate /\ IdleRobots /\ IdlePure /\ IdleOsint /\ IdleAdapter /\ IdleIntake /\ IdleManager /\ IdleRace

IdleExceptShodan == IdleDb /\ IdleFetch /\ IdleValidate /\ IdleRobots /\ IdlePure /\ IdleOsint /\ IdleAdapter /\ IdleIntake /\ IdleManager /\ IdleRace

IdleExceptValidate == IdleDb /\ IdleFetch /\ IdleShodan /\ IdleRobots /\ IdlePure /\ IdleOsint /\ IdleAdapter /\ IdleIntake /\ IdleManager /\ IdleRace

IdleExceptRobots == IdleDb /\ IdleFetch /\ IdleShodan /\ IdleValidate /\ IdlePure /\ IdleOsint /\ IdleAdapter /\ IdleIntake /\ IdleManager /\ IdleRace

IdleExceptPure == IdleFetch /\ IdleShodan /\ IdleValidate /\ IdleRobots /\ IdleDb /\ IdleOsint /\ IdleAdapter /\ IdleIntake /\ IdleManager /\ IdleRace

IdleExceptOsint == IdleFetch /\ IdleShodan /\ IdleValidate /\ IdleRobots /\ IdlePure /\ IdleDb /\ IdleAdapter /\ IdleIntake /\ IdleManager /\ IdleRace

IdleExceptAdapter == IdleFetch /\ IdleShodan /\ IdleValidate /\ IdleRobots /\ IdlePure /\ IdleOsint /\ IdleDb /\ IdleIntake /\ IdleManager /\ IdleRace

\* the credential-gated adapters run, the rest is at rest
IdleExceptShodanAdapter == IdleFetch /\ IdleValidate /\ IdleRobots /\ IdlePure /\ IdleOsint /\ IdleDb /\ IdleIntake /\ IdleManager /\ IdleRace

IdleExceptIntake == IdleFetch /\ IdleShodan /\ IdleValidate /\ IdleRobots /\ IdlePure /\ IdleOsint /\ IdleAdapter /\ IdleDb /\ IdleManager /\ IdleRace

\* the extractor and its store run, the rest is at rest
IdleExceptDbIntake == IdleFetch /\ IdleShodan /\ IdleValidate /\ IdleRobots /\ IdlePure /\ IdleOsint /\ IdleAdapter /\ IdleManager /\ IdleRace

IdleExceptManager == IdleFetch /\ IdleShodan /\ IdleValidate /\ IdleRobots /\ IdlePure /\ IdleOsint /\ IdleAdapter /\ IdleIntake /\ IdleDb /\ IdleRace

IdleExceptRace == IdleFetch /\ IdleShodan /\ IdleValidate /\ IdleRobots /\ IdlePure /\ IdleOsint /\ IdleAdapter /\ IdleIntake /\ IdleManager /\ IdleDb

InitDb == /\ IdleExceptDb
          /\ entities = {}
          /\ osint_profiles = {}
          /\ contacts = {}
          /\ db_now = 0
          /\ dbOp = [op |-> "none"]
          /\ returned = [k \in Identifiers \X EntityTypes |-> 0]

NextEntity == ResolveStep

SpecEntity == InitDb /\ [][NextEntity]_vars

\* =================================================================
\*  Payload trees (JSON-like values with datetimes)
\* =================================================================
\* A value is a tagged node: dict (m: key -> node), list (l: sequence of nodes),
\* str / int / bool / dt (v).  Text and datetime values are numbered; text 0 is "".
DictN(m) == [t |-> "dict", m |-> m]
ListN(l) == [t |-> "list", l |-> l]
StrN(v) == [t |-> "str", v |-> v]
IntN(v) == [t |-> "int", v |-> v]
BoolN(v) == [t |-> "bool", v |-> v]
DtN(v) == [t |-> "dt", v |-> v]

\* datetime.isoformat(): "YYYY-MM-DDTHH:MM:SS", a text distinct from str(datetime)
IsoFormat(n) == StrN(100 + n)

\* str(x): a text is itself, a datetime prints as "YYYY-MM-DD HH:MM:SS"
PyStr(x) == IF x.t = "dt" THEN StrN(200 + x.v) ELSE x

\* Python truthiness of a value
Truthy(x) ==
    CASE x.t = "dict" -> DOMAIN x.m # {}
      [] x.t = "list" -> Len(x.l) > 0
      [] x.t = "str"  -> x.v # 0
      [] x.t = "int"  -> x.v # 0
      [] x.t = "bool" -> x.v
      [] OTHER        -> TRUE

\* dict.get(k, default) on a dict node
DGet(d, k, default) == IF k \in DOMAIN d.m THEN d.m[k] ELSE default

\* dict.update: the entries of b win
DUpdate(a, b) == [k \in DOMAIN a \cup DOMAIN b |-> IF k \in DOMAIN b THEN b[k] ELSE a[k]]

Take(l, n) == SubSeq(l, 1, IF Len(l) < n THEN Len(l) ELSE n)

RECURSIVE standardize_for_json(_)
standardize_for_json(item) ==
    CASE item.t = "dt"   -> IsoFormat(item.v)
      [] item.t = "dict" -> DictN([k \in DOMAIN item.m |-> standardize_for_json(item.m[k])])
      [] item.t = "list" -> ListN([i \in DOMAIN item.l |-> standardize_for_json(item.l[i])])
      [] OTHER           -> item

StructuredWhois(data) ==
    LET w == DGet(data, "whois", DictN(EmptyDict))
    IN  IF ~Truthy(w) THEN EmptyDict
        ELSE [registrar |-> PyStr(DGet(w, "registrar", StrN(0))),
              creation_date |-> PyStr(DGet(w, "creation_date", StrN(0))),
              expiration_date |-> PyStr(DGet(w, "expiration_date", StrN(0))),
              domain_name |-> PyStr(DGet(w, "domain_name", DGet(w, "domain", StrN(0)))),
              org |-> PyStr(DGet(w, "org", StrN(0))),
              name_servers |-> DGet(w, "name_servers", ListN(<<>>))]

StructuredShodan(data) ==
    LET sh == DGet(data, "shodan", DictN(EmptyDict))
    IN  IF ~Truthy(sh) THEN EmptyDict
        ELSE [ip |-> DGet(sh, "ip_str", StrN(0)),
              ports |-> DGet(sh, "ports", ListN(<<>>)),
              hostnames |-> DGet(sh, "hostnames", ListN(<<>>)),
              isp |-> DGet(sh, "isp", StrN(0)),
              org |-> DGet(sh, "org", StrN(0))]

StructuredDns(data) ==
    LET dns == DGet(data, "dns", DictN(EmptyDict))
    IN  IF ~Truthy(dns) THEN EmptyDict ELSE [dns_records |-> dns]

StructuredWayback(data) ==
    LET wb == DGet(data, "wayback_machine", DictN(EmptyDict))
        snapshots == DGet(wb, "snapshots", ListN(<<>>))
    IN  IF ~Truthy(wb) THEN EmptyDict
        ELSE IF Truthy(DGet(wb, "error", StrN(0))) \/ Truthy(DGet(wb, "info", StrN(0)))
        THEN EmptyDict
        ELSE IF Truthy(snapshots)
        THEN [wayback_snapshot_count |-> IntN(Len(snapshots.l)),
              wayback_latest_snapshots |->
                  ListN([i \in DOMAIN Take(snapshots.l, 5) |->
                           DictN([timestamp |-> snapshots.l[i].m["timestamp"],
                                  url |-> snapshots.l[i].m["url"]])])]
        ELSE [wayback_snapshot_count |-> IntN(0)]

StructuredEmail(data) ==
    LET h == DGet(data, "hunterio", DictN(EmptyDict))
        c == DGet(h, "data", h)
        b == DGet(data, "breaches", ListN(<<>>))
        hunter == IF ~Truthy(h) THEN EmptyDict
                  ELSE [hunterio_status |-> DGet(c, "status", DGet(c, "result", StrN(0))),
                        hunterio_score |-> DGet(c, "score", IntN(0)),
                        hunterio_disposable |-> DGet(c, "disposable", BoolN(FALSE)),
                        hunterio_webmail |-> DGet(c, "webmail", BoolN(FALSE))]
        breaches == IF ~Truthy(b) THEN EmptyDict
                    ELSE IF b.t = "list"
                    THEN [breach_count |-> IntN(Len(b.l)),
                          breached_sites |->
                              ListN([i \in DOMAIN Take(b.l, 5) |->
                                       PyStr(DGet(b.l[i], "Name", StrN(0)))])]
                    ELSE [breach_count |-> IntN(0), breached_sites |-> ListN(<<>>)]
    IN  DUpdate(hunter, breaches)

StructuredSocial(data) ==
    LET pr == DGet(data, "profiles", DictN(EmptyDict))
        exists == {k \in DOMAIN pr.m : Truthy(DGet(pr.m[k], "exists", BoolN(FALSE)))}
    IN  IF ~Truthy(pr) THEN EmptyDict
        ELSE [social_media_presence |-> DictN([k \in exists |-> DGet(pr.m[k], "url", StrN(0))]),
              platform_count |-> IntN(Cardinality(exists))]

extract_structured_fields(data, source_type) ==
    CASE source_type = "domain" ->
             DictN(DUpdate(DUpdate(DUpdate(StructuredWhois(data), StructuredShodan(data)),
                                   StructuredDns(data)), StructuredWayback(data)))
      [] source_type = "email"  -> DictN(StructuredEmail(data))
      [] source_type = "social" -> DictN(StructuredSocial(data))
      [] OTHER                  -> DictN(EmptyDict)

\* json.dumps / json.loads: the stored text of a value, and its decoding
JsonDumps(x) == [json |-> x]
JsonLoads(text) == text.json

\* ------------------------------------------------------------ the payloads
DomainPayloadA ==
    DictN([whois |-> DictN([registrar |-> StrN(1), creation_date |-> DtN(1),
                            name_servers |-> ListN(<<StrN(2)>>)]),
           shodan |-> DictN([ip_str |-> StrN(3), org |-> StrN(5)]),
           dns |-> DictN([A |-> ListN(<<StrN(3)>>)])])

SocialPayload ==
    DictN([profiles |-> DictN([github |-> DictN([exists |-> BoolN(TRUE), url |-> StrN(6)]),
                               gitlab |-> DictN([exists |-> BoolN(FALSE)])])])

EmptyPayload == DictN(EmptyDict)

Payloads == {DomainPayloadA, SocialPayload, EmptyPayload}

ProfileSources == {"domain", "social"}

\* =================================================================
\*  Profile snapshots: OSINTExtractor._save_osint_profile
\* =================================================================
\* the row a plain INSERT stores; updated_at takes the column default, the
\* timestamp of the statement
ProfileInsertRow(entity_id, source, raw, extracted, ts) ==
    [entity_id |-> entity_id, source |-> source, raw_data |-> raw,
     extracted_fields |-> extracted, updated_at |-> ts]

UpsertKeepsOldRow(rows, entity_id, source, raw, extracted, ts) ==
    rows \cup {ProfileInsertRow(entity_id, source, raw, extracted, ts)}

\* INSERT INTO osint_profiles ... ON CONFLICT(entity_id, source) DO UPDATE SET
\* raw_data, extracted_fields, updated_at=CURRENT_TIMESTAMP
UpsertProfile(rows, entity_id, source, raw, extracted, ts) ==
    LET hit == {r \in rows : r.entity_id = entity_id /\ r.source = source}
    IN  IF hit = {}
        THEN rows \cup {ProfileInsertRow(entity_id, source, raw, extracted, ts)}
        ELSE (rows \ hit) \cup
             {[r EXCEPT !.raw_data = raw, !.extracted_fields = extracted,
                        !.updated_at = ts] : r \in hit}

\* _save_osint_profile(entity_id, source, data); dbOp keeps the arguments, the
\* time of the statement and the rows the pair had before the call
SaveOsintProfile(entity_id, source, data) ==
    LET before == {r \in osint_profiles : r.entity_id = entity_id /\ r.source = source}
        op == [op |-> "save", entity_id |-> entity_id, source |-> source,
               data |-> data, at |-> db_now, before |-> before]
    IN  /\ dbOp' = op
        /\ IF ~Truthy(data)
           THEN osint_profiles' = osint_profiles
           ELSE osint_profiles' =
                    UpsertProfile(osint_profiles, entity_id, source,
                                  JsonDumps(standardize_for_json(data)),
                                  JsonDumps(extract_structured_fields(data, source)),
                                  db_now)
        /\ UNCHANGED <<entities, contacts, db_now, returned>>
        /\ UNCHANGED exceptDb

SaveStep == \E e \in entities, source \in ProfileSources, data \in Payloads :
                /\ \/ \E r \in osint_profiles : r.entity_id = e.id /\ r.source = source
                   \/ Cardinality(osint_profiles) < MaxProfiles
                /\ SaveOsintProfile(e.id, source, data)

ProfileResolveStep ==
    \E identifier \in {"example.com", "acme.test"} :
        GetOrCreateEntity(identifier, "domain")

NextProfile == ProfileResolveStep \/ SaveStep \/ DbTick

SpecProfile == InitDb /\ [][NextProfile]_vars

ProfileRowsOf(entity_id, source) ==
    {r \in osint_profiles : r.entity_id = entity_id /\ r.source = source}

\* C1 (as claimed): at most one osint_profiles row per (entity_id, source); a save
\* with non-empty data leaves the pair's row holding the new raw_data and
\* extracted_fields, and a save for an already-profiled pair advances updated_at.
C1_UpsertAdvances ==
    /\ \A r1, r2 \in osint_profiles :
          (r1.entity_id = r2.entity_id /\ r1.source = r2.source) => r1 = r2
    /\ (dbOp.op = "save" /\ Truthy(dbOp.data)) =>
          \A r \in ProfileRowsOf(dbOp.entity_id, dbOp.source) :
              /\ r.raw_data = JsonDumps(standardize_for_json(dbOp.data))
              /\ r.extracted_fields =
                     JsonDumps(extract_structured_fields(dbOp.data, dbOp.source))
              /\ \A old \in dbOp.before : r.updated_at > old.updated_at

\* C1 (amended): at most one osint_profiles row per (entity_id, source); a save
\* with non-empty data leaves exactly one row for the pair, holding the new
\* raw_data and extracted_fields, with updated_at set to the timestamp of the save,
\* which is never earlier than the replaced row's.
C1_UpsertReplaces ==
    /\ \A r1, r2 \in osint_profiles :
          (r1.entity_id = r2.entity_id /\ r1.source = r2.source) => r1 = r2
    /\ (dbOp.op = "save" /\ Truthy(dbOp.data)) =>
          /\ Cardinality(ProfileRowsOf(dbOp.entity_id, dbOp.source)) = 1
          /\ \A r \in ProfileRowsOf(dbOp.entity_id, dbOp.source) :
              /\ r.raw_data = JsonDumps(standardize_for_json(dbOp.data))
              /\ r.extracted_fields =
                     JsonDumps(extract_structured_fields(dbOp.data, dbOp.source))
              /\ r.updated_at = dbOp.at
              /\ \A old \in dbOp.before : r.updated_at >= old.updated_at

\* a pair profiled with one payload is saved again with another, one second later
C1_Witness ==
    /\ dbOp.op = "save" /\ Truthy(dbOp.data)
    /\ \E old \in dbOp.before :
          /\ old.raw_data # JsonDumps(standardize_for_json(dbOp.data))
          /\ old.updated_at < dbOp.at
    /\ Cardinality(ProfileRowsOf(dbOp.entity_id, dbOp.source)) = 1

\* =================================================================
\*  Contact extraction: OSINTExtractor._extract_and_save_contacts
\* =================================================================
\* Contact values are texts written as sequences of characters.
NullText == <<"NULL">>

Digits == {"0", "1", "2", "3", "4", "5", "6", "7", "8", "9"}

DigitVal(c) == CASE c = "0" -> 0 [] c = "1" -> 1 [] c = "2" -> 2 [] c = "3" -> 3
                 [] c = "4" -> 4 [] c = "5" -> 5 [] c = "6" -> 6 [] c = "7" -> 7
                 [] c = "8" -> 8 [] c = "9" -> 9

IsDigit(c) == c \in Digits

AllDigits(s) == \A i \in 1..Len(s) : IsDigit(s[i])

StartsWith(s, pre) == Len(s) >= Len(pre) /\ SubSeq(s, 1, Len(pre)) = pre

EndsWith(s, suf) == Len(s) >= Len(suf) /\ SubSeq(s, Len(s) - Len(suf) + 1, Len(s)) = suf

Tail2(s) == SubSeq(s, 3, Len(s))

\* str.lower() on the characters the model's texts use
LowerChar(c) ==
    CASE c = "A" -> "a" [] c = "B" -> "b" [] c = "C" -> "c" [] c = "D" -> "d"
      [] c = "E" -> "e" [] c = "F" -> "f" [] c = "G" -> "g" [] c = "H" -> "h"
      [] c = "I" -> "i" [] c = "J" -> "j" [] c = "K" -> "k" [] c = "L" -> "l"
      [] c = "M" -> "m" [] c = "N" -> "n" [] c = "O" -> "o" [] c = "P" -> "p"
      [] c = "Q" -> "q" [] c = "R" -> "r" [] c = "S" -> "s" [] c = "T" -> "t"
      [] c = "U" -> "u" [] c = "V" -> "v" [] c = "W" -> "w" [] c = "X" -> "x"
      [] c = "Y" -> "y" [] c = "Z" -> "z"
      [] OTHER -> c

Lower(s) == [i \in 1..Len(s) |-> LowerChar(s[i])]

\* the characters of the numbered texts that occur in contact payloads
Text(n) ==
    CASE n = 10 -> <<"w", "r", "i", "t", "e", " ", "I", "n", "f", "o", "@", "a", "c", "m", "e", ".", "t", "e", "s", "t">>
      [] n = 11 -> <<"+", "1", " ", "4", "1", "5", " ", "5", "5", "5", " ", "2", "6", "7", "1">>
      [] n = 12 -> <<"B", "o", "b", "@", "A", "c", "m", "e", ".", "t", "e", "s", "t">>
      [] n = 13 -> <<"l", "o", "g", "o", "@", "2", "x", ".", "p", "n", "g">>
      [] n = 14 -> <<"t", "e", "l", " ", "+", "6", "8", "3", " ", "4", "0", "0", "2">>
      [] OTHER -> <<>>

\* extract_emails(text) on the numbered texts: the lowercased regex candidates
\* that survive its exclusions ("logo@2x.png" holds the extension ".png")
extract_emails(n) ==
    CASE n = 10 -> {Lower(SubSeq(Text(10), 7, Len(Text(10))))}
      [] n = 12 -> {Lower(Text(12))}
      [] OTHER  -> {}

\* extract_phone_numbers(text) on the numbered texts: the E.164 form of each
\* possible number the phone-number grammar finds
extract_phone_numbers(n) ==
    CASE n = 11 -> {SelectSeq(Text(11), LAMBDA c : c # " ")}
      [] n = 14 -> {SelectSeq(SubSeq(Text(14), 5, Len(Text(14))), LAMBDA c : c # " ")}
      [] OTHER  -> {}

\* ---- filter_phone_numbers
CleanedPhone(phone) ==
    IF StartsWith(phone, <<"+", "+">>)
    THEN <<"+">> \o SelectSeq(Tail2(phone), IsDigit)
    ELSE IF StartsWith(phone, <<"+">>)
    THEN <<"+">> \o SelectSeq(Tail(phone), IsDigit)
    ELSE SelectSeq(phone, IsDigit)

\* two characters read as a number within lo..hi
TwoDigitsIn(s, i, lo, hi) ==
    LET n == 10 * DigitVal(s[i]) + DigitVal(s[i + 1]) IN lo <= n /\ n <= hi

\* the six date_patterns, matched against the cleaned number
MatchesDatePattern(c) ==
    \/ Len(c) = 8 /\ AllDigits(c) /\ StartsWith(c, <<"2", "0">>)
    \/ Len(c) = 8 /\ AllDigits(c)
    \/ Len(c) = 6 /\ AllDigits(c)
    \/ Len(c) = 8 /\ AllDigits(c) /\ StartsWith(c, <<"2", "0">>)
          /\ TwoDigitsIn(c, 5, 1, 12) /\ TwoDigitsIn(c, 7, 1, 31)
    \/ Len(c) = 8 /\ AllDigits(c) /\ TwoDigitsIn(c, 1, 1, 12) /\ TwoDigitsIn(c, 3, 1, 31)
          /\ SubSeq(c, 5, 6) = <<"2", "0">>
    \/ Len(c) = 8 /\ AllDigits(c)
          /\ (StartsWith(c, <<"1", "9">>) \/ StartsWith(c, <<"2", "0">>))

\* ip_pattern: four dot-separated runs of one to three digits
RECURSIVE DotRuns(_, _)
DotRuns(s, run) ==
    IF s = <<>> THEN <<run>>
    ELSE IF Head(s) = "." THEN <<run>> \o DotRuns(Tail(s), <<>>)
    ELSE DotRuns(Tail(s), Append(run, Head(s)))

MatchesIpPattern(phone) ==
    LET runs == DotRuns(phone, <<>>)
    IN  /\ Len(runs) = 4
        /\ \A i \in 1..4 : Len(runs[i]) \in 1..3 /\ AllDigits(runs[i])

MatchesSequentialNever(c) == FALSE

\* sequential_pattern: at least five digits each followed by its successor
MatchesSequentialPattern(c) ==
    /\ Len(c) >= 6
    /\ AllDigits(c)
    /\ \A i \in 1..(Len(c) - 1) : DigitVal(c[i]) <= 8
                                  /\ DigitVal(c[i + 1]) = DigitVal(c[i]) + 1

\* a 10-character cleaned number starting with 1 or 2 parses as an integer in
\* 1000000000..9999999999
LooksLikeTimestamp(c) ==
    Len(c) = 10 /\ (c[1] = "1" \/ c[1] = "2") /\ AllDigits(c)

PhoneDigits(c) == SelectSeq(c, LAMBDA x : x # "+")

KeepPhone(phone) ==
    LET c == CleanedPhone(phone)
    IN  /\ ~MatchesDatePattern(c)
        /\ ~MatchesIpPattern(phone)
        /\ ~MatchesSequentialPattern(c)
        /\ ~LooksLikeTimestamp(c)
        /\ 8 <= Len(PhoneDigits(c)) /\ Len(PhoneDigits(c)) <= 15

filter_phone_numbers(phone_numbers) ==
    {CleanedPhone(p) : p \in {q \in phone_numbers : KeepPhone(q)}}

\* ---- find_contacts_recursive
\* 'email' in k.lower(), for the keys of the model's payloads
KeyNamesEmail(k) == k \in {"email", "admin_email", "emails"}

HasAt(s) == \E i \in 1..Len(s) : s[i] = "@"

RECURSIVE FindEmails(_)
FindEmails(item) ==
    CASE item.t = "dict" ->
             UNION {IF item.m[k].t = "str"
                    THEN (IF KeyNamesEmail(k) /\ HasAt(Text(item.m[k].v))
                          THEN {Lower(Text(item.m[k].v))} ELSE {})
                         \cup extract_emails(item.m[k].v)
                    ELSE FindEmails(item.m[k]) : k \in DOMAIN item.m}
      [] item.t = "list" -> UNION {FindEmails(item.l[i]) : i \in DOMAIN item.l}
      [] item.t = "str"  -> extract_emails(item.v)
      [] OTHER           -> {}

RECURSIVE FindPhones(_)
FindPhones(item) ==
    CASE item.t = "dict" ->
             UNION {IF item.m[k].t = "str"
                    THEN extract_phone_numbers(item.m[k].v)
                    ELSE FindPhones(item.m[k]) : k \in DOMAIN item.m}
      [] item.t = "list" -> UNION {FindPhones(item.l[i]) : i \in DOMAIN item.l}
      [] item.t = "str"  -> extract_phone_numbers(item.v)
      [] OTHER           -> {}

EmailExcludeExtensions ==
    {<<".", "p", "n", "g">>, <<".", "j", "p", "g">>, <<".", "g", "i", "f">>,
     <<".", "j", "p", "e", "g">>, <<".", "w", "e", "b", "p">>, <<".", "s", "v", "g">>,
     <<".", "c", "s", "s">>, <<".", "j", "s">>}

\* contacts_to_save as a set: the emails not ending in an excluded extension,
\* lowercased, and the filtered phones
EmailsToSave(data) ==
    {Lower(e) : e \in {x \in FindEmails(data) :
                         ~\E ext \in EmailExcludeExtensions : EndsWith(Lower(x), ext)}}

PhonesToSave(data) == filter_phone_numbers(FindPhones(data))

ContactExistsWrongColumn(rows, entity_id, contact_type, value) ==
    \E r \in rows :
        /\ r.entity_id = entity_id
        /\ IF contact_type = "email" THEN r.phone # NullText /\ r.phone = value
                                     ELSE r.email # NullText /\ r.email = value

\* SELECT id FROM contacts WHERE entity_id=? AND <column> IS NOT NULL AND <column>=?
ContactExists(rows, entity_id, contact_type, value) ==
    \E r \in rows :
        /\ r.entity_id = entity_id
        /\ IF contact_type = "email" THEN r.email # NullText /\ r.email = value
                                     ELSE r.phone # NullText /\ r.phone = value

\* the loop of the contacts transaction over contacts_to_save, in list order
RECURSIVE SaveContacts(_, _, _, _)
SaveContacts(rows, entity_id, todo, src) ==
    IF todo = <<>> THEN rows
    ELSE LET c == Head(todo)
             row == [id |-> NextRowId(rows), entity_id |-> entity_id,
                     email |-> IF c[1] = "email" THEN c[2] ELSE NullText,
                     phone |-> IF c[1] = "phone" THEN c[2] ELSE NullText,
                     source |-> src]
         IN  IF c[2] = <<>> \/ ContactExists(rows, entity_id, c[1], c[2])
             THEN SaveContacts(rows, entity_id, Tail(todo), src)
             ELSE SaveContacts(rows \cup {row}, entity_id, Tail(todo), src)

ContactPayloadA ==
    DictN([email |-> StrN(12), notes |-> ListN(<<StrN(10), StrN(11)>>)])

ContactPayloadB ==
    DictN([whois |-> DictN([admin_email |-> StrN(13), phone |-> StrN(11),
                            emails |-> ListN(<<StrN(12)>>)]),
           fax |-> StrN(14)])

ContactPayloads == {ContactPayloadA, ContactPayloadB, EmptyPayload}

\* what the walk and the filters yield for each payload of the model
ContactsFound ==
    [data \in ContactPayloads |->
        [emails |-> EmailsToSave(data), phones |-> PhonesToSave(data)]]

\* _extract_and_save_contacts(entity_id, data, source).  The emails are listed
\* before the phones, each group in the arbitrary order of a Python set.
ExtractAndSaveContacts(entity_id, data, source) ==
    LET emails == {<<"email", e>> : e \in ContactsFound[data].emails}
        phones == {<<"phone", ph>> : ph \in ContactsFound[data].phones}
        op == [op |-> "contacts", entity_id |-> entity_id, source |-> source,
               data |-> data, saved |-> emails \cup phones, before |-> contacts]
    IN  /\ dbOp' = op
        /\ IF ~Truthy(data) \/ emails \cup phones = {}
           THEN contacts' = contacts
           ELSE \E es \in Orderings(emails), ps \in Orderings(phones) :
                    contacts' = SaveContacts(contacts, entity_id, es \o ps, source)
        /\ UNCHANGED <<entities, osint_profiles, db_now, returned>>
        /\ UNCHANGED exceptDb

ContactSources == {"domain", "whois"}

ContactsStep == \E e \in entities, data \in ContactPayloads, source \in ContactSources :
                    ExtractAndSaveContacts(e.id, data, source)

NextContacts == ProfileResolveStep \/ ContactsStep

SpecContacts == InitDb /\ [][NextContacts]_vars

\* C4: the contacts store never holds two rows with the same (entity_id, email) or
\* the same (entity_id, phone), and a contact-extraction call leaves every row that
\* was there untouched: a value already stored for the entity is skipped, also when
\* it is found again under another source tag.
C4_NoDuplicateContacts ==
    /\ \A r1, r2 \in contacts :
          (/\ r1.entity_id = r2.entity_id
           /\ \/ r1.email # NullText /\ r1.email = r2.email
              \/ r1.phone # NullText /\ r1.phone = r2.phone) => r1 = r2
    /\ \A r \in contacts : (r.email = NullText) # (r.phone = NullText)
    /\ dbOp.op = "contacts" =>
          /\ dbOp.before \subseteq contacts
          /\ \A c \in dbOp.saved :
                Cardinality({r \in contacts : /\ r.entity_id = dbOp.entity_id
                                              /\ r.email = (IF c[1] = "email" THEN c[2] ELSE NullText)
                                              /\ r.phone = (IF c[1] = "phone" THEN c[2] ELSE NullText)}) = 1

\* a stored value is found again under the other source tag and skipped
C4_Witness ==
    /\ dbOp.op = "contacts"
    /\ contacts = dbOp.before
    /\ \E r \in contacts :
          /\ r.entity_id = dbOp.entity_id
          /\ r.source # dbOp.source
          /\ <<"email", r.email>> \in dbOp.saved
    /\ \E r \in contacts :
          /\ r.entity_id = dbOp.entity_id
          /\ r.source # dbOp.source
          /\ <<"phone", r.phone>> \in dbOp.saved

\* C2: for a domain identifier, a resolve call that follows an earlier resolve of
\* the same identifier returns the id the earlier call returned, and inserts no
\* entity row.
C2_DomainResolveIdempotent ==
    (dbOp.op = "resolve" /\ dbOp.entity_type = "domain" /\ dbOp.prevRet # 0)
        => (~dbOp.raised /\ dbOp.ret = dbOp.prevRet /\ ~dbOp.added)

C2_Witness ==
    /\ dbOp.op = "resolve" /\ dbOp.entity_type = "domain"
    /\ dbOp.identifier = "example.com"
    /\ dbOp.prevRet # 0 /\ dbOp.ret = dbOp.prevRet
    /\ Cardinality(entities) >= 2

\* C3: no two entity rows share the same (name, kind, domain) key, person rows
\* (domain unset) included: resolving the same email or username twice yields
\* one row and one id.
C3_EntityKeyUnique ==
    /\ \A e1, e2 \in entities :
          (e1.name = e2.name /\ e1.type = e2.type /\ e1.domain = e2.domain) => e1 = e2
    /\ (dbOp.op = "resolve" /\ dbOp.prevRet # 0) => dbOp.ret = dbOp.prevRet

\* =================================================================
\*  WebFetcher: politeness, retries, cache (scraper/fetcher.py)
\* =================================================================
\* Times are whole seconds.  Epoch is the wall clock when the fetcher is built.
Epoch == 10
MaxCalls == 2
MaxIdle == 1
MaxRetries == 2

Urls == {"http://a.test/x", "http://b.test/y"}

\* delay_range[0]: the default 1.0 and a slower setting
DelayChoices == {1, 3}

\* random.uniform(2, 5): the two ends of the interval
BackoffChoices == {2, 5}

\* hashlib.md5(url.encode()).hexdigest(), on the model's urls
Md5(url) == CASE url = "http://a.test/x" -> "d41a"
              [] url = "http://b.test/y" -> "9e0b"

\* _get_cache_path: the file name inside cache_dir
CachePath(url) == <<Md5(url), ".html">>

\* _check_cache(url): the cached text, or None
CheckCache(files, enabled, url) ==
    IF ~enabled THEN [t |-> "None"]
    ELSE IF CachePath(url) \in DOMAIN files
    THEN [t |-> "str", text |-> files[CachePath(url)]]
    ELSE [t |-> "None"]

\* _save_to_cache(url, content): the files afterwards
SaveToCache(files, enabled, url, content) ==
    IF ~enabled THEN files
    ELSE [k \in DOMAIN files \cup {CachePath(url)} |->
             IF k = CachePath(url) THEN content ELSE files[k]]

\* what _safe_get does: an HTTP response of any status, with or without a body,
\* or a requests.RequestException (connection error, timeout)
SafeGetOutcomes ==
    {[t |-> "response", status |-> st, content |-> b] :
        st \in {200, 404}, b \in {"", "<html>"}}
    \cup {[t |-> "RequestException"]}

\* bytes.decode(encoding, errors='replace')
Decode(content) == <<"text", content>>

PolitenessNever(now, last, min_delay) == 0

\* _respect_politeness at time now: how long it sleeps
PolitenessSleep(now, last, min_delay) ==
    IF now - last < min_delay THEN min_delay - (now - last) ELSE 0

FetchTextOkOnly(resp) ==
    IF resp.t = "FetchResponse" /\ resp.status_code = 200 /\ resp.content # ""
    THEN [t |-> "str", text |-> Decode(resp.content)]
    ELSE [t |-> "None"]

\* the value fetch builds from what fetch_full_response returned
FetchText(resp) ==
    IF resp.t = "FetchResponse" /\ resp.content # ""
    THEN [t |-> "str", text |-> Decode(resp.content)]
    ELSE [t |-> "None"]

\* the call returns: fpc goes back to idle and the history keeps what later
\* calls are compared with
FetchReturn(call, resp) ==
    /\ fpc' = "idle"
    /\ fcall' = [call EXCEPT !.result = IF call.kind = "fetch" THEN FetchText(resp) ELSE resp]
    /\ fhist' = [calls |-> fhist.calls + 1,
                 prevFirstAt |-> IF call.firstAt >= 0 THEN call.firstAt ELSE fhist.prevFirstAt,
                 prevUrl |-> IF call.firstAt >= 0 THEN call.url ELSE fhist.prevUrl,
                 prevLastAt |-> IF call.lastAt >= 0 THEN call.lastAt ELSE fhist.prevLastAt,
                 fetched |-> IF call.kind = "fetch" /\ FetchText(resp).t = "str"
                             THEN fhist.fetched \cup {call.url} ELSE fhist.fetched]

\* fetch(url, force_download, timeout, retries) or fetch_full_response(...) is
\* called `wait` seconds after the fetcher was last left, and runs
\* _respect_politeness
FetchIssue(kind, url, force, retries, wait) ==
    LET t == f_now + wait
        sleep == PolitenessSleep(t, last_request_time, delay_min)
    IN  /\ fpc = "idle"
        /\ fhist.calls < MaxCalls
        /\ f_now' = t + sleep
        /\ last_request_time' = t + sleep
        /\ fpc' = "loop"
        /\ fcall' = [kind |-> kind, url |-> url, force |-> force, retries |-> retries,
                     issuedAt |-> t, attempt |-> 0, requests |-> 0, firstAt |-> -1,
                     lastAt |-> -1, prevReqAt |-> -1, got |-> [t |-> "none"],
                     backoffs |-> 0, lastBackoff |-> 0,
                     seenBefore |-> url \in fhist.fetched,
                     prevFirstAt |-> fhist.prevFirstAt, prevUrl |-> fhist.prevUrl,
                     result |-> [t |-> "pending"]]
        /\ UNCHANGED <<delay_min, cache_enabled, cache, fhist>>
        /\ UNCHANGED exceptFetch

AttemptLimitOff(call) == call.attempt <= call.retries

\* while attempt < retries
AttemptLimit(call) == call.attempt < call.retries

\* if attempt < retries: time.sleep(random.uniform(2, 5) * attempt)
BackoffDue(attempt, retries) == attempt < retries

\* one pass of the retry loop: a request is started now and answered at once (the
\* fastest case); a response ends the call, a RequestException counts the attempt
\* and may sleep before the next pass.  The call keeps when its latest request
\* and the fetcher's request before that one were started, and what _safe_get did
FetchAttempt ==
    /\ fpc = "loop"
    /\ AttemptLimit(fcall)
    /\ \E out \in SafeGetOutcomes :
        LET started == [fcall EXCEPT !.requests = @ + 1,
                                     !.firstAt = IF @ < 0 THEN f_now ELSE @,
                                     !.prevReqAt = IF fcall.lastAt >= 0 THEN fcall.lastAt
                                                   ELSE fhist.prevLastAt,
                                     !.lastAt = f_now,
                                     !.got = out]
            failed == [started EXCEPT !.attempt = @ + 1]
        IN  IF out.t = "response"
            THEN /\ FetchReturn(started, [t |-> "FetchResponse", status_code |-> out.status,
                                          content |-> out.content])
                 /\ f_now' = f_now
            ELSE IF BackoffDue(failed.attempt, failed.retries)
            THEN \E u \in BackoffChoices :
                    /\ f_now' = f_now + u * failed.attempt
                    /\ fcall' = [failed EXCEPT !.backoffs = @ + 1,
                                               !.lastBackoff = u * failed.attempt]
                    /\ fpc' = "loop"
                    /\ fhist' = fhist
            ELSE /\ f_now' = f_now
                 /\ fcall' = failed
                 /\ fpc' = "loop"
                 /\ fhist' = fhist
    /\ UNCHANGED <<delay_min, last_request_time, cache_enabled, cache>>
    /\ UNCHANGED exceptFetch

\* the loop is left without a response: log the failure, return None
FetchGiveUp ==
    /\ fpc = "loop"
    /\ ~AttemptLimit(fcall)
    /\ FetchReturn(fcall, [t |-> "None"])
    /\ UNCHANGED <<delay_min, last_request_time, cache_enabled, cache, f_now>>
    /\ UNCHANGED exceptFetch

FetchCall == \E kind \in {"fetch", "full"}, url \in Urls, force \in BOOLEAN,
                retries \in 0..MaxRetries, wait \in 0..MaxIdle :
                    FetchIssue(kind, url, force, retries, wait)

InitFetch == /\ IdleExceptFetch
             /\ delay_min \in DelayChoices
             /\ last_request_time = 0
             /\ cache_enabled \in BOOLEAN
             /\ cache = EmptyDict
             /\ f_now = Epoch
             /\ fpc = "idle"
             /\ fcall = [kind |-> "none"]
             /\ fhist = [calls |-> 0, prevFirstAt |-> -1, prevUrl |-> "", prevLastAt |-> -1,
                         fetched |-> {}]

NextFetch == FetchCall \/ FetchAttempt \/ FetchGiveUp

SpecFetch == InitFetch /\ [][NextFetch]_vars

FetchDone == fpc = "idle" /\ fcall.kind # "none"

\* C5: for one fetcher, the first outbound request of a fetch / fetch_full_response
\* call starts at least delay_range[0] seconds after the first outbound request of
\* the previous call, whatever the two hosts are: a call issued sooner waits.
C5_PolitenessBetweenCalls ==
    (fcall.kind # "none" /\ fcall.firstAt >= 0 /\ fcall.prevFirstAt >= 0)
        => fcall.firstAt - fcall.prevFirstAt >= delay_min

\* a call to another host, issued sooner than the delay after the previous call,
\* has waited and started its request exactly the delay later
C5_Witness ==
    /\ fcall.kind # "none" /\ fcall.firstAt >= 0 /\ fcall.prevFirstAt >= 0
    /\ fcall.url # fcall.prevUrl
    /\ fcall.issuedAt - fcall.prevFirstAt < delay_min
    /\ fcall.firstAt = fcall.prevFirstAt + delay_min

\* C6: a call with retries = n makes at most n request attempts; when every
\* attempt fails it ends with None (fetch too) without raising; backoff sleeps of
\* uniform[2,5] times the attempt number happen only between attempts, so none
\* follows the last one.
C6_RetriesBounded ==
    /\ fcall.kind # "none" =>
          /\ fcall.requests <= fcall.retries
          /\ fcall.attempt <= fcall.requests
          /\ fcall.backoffs = (IF fcall.attempt < fcall.retries \/ fcall.attempt = 0
                               THEN fcall.attempt ELSE fcall.attempt - 1)
          /\ fcall.backoffs > 0 =>
                /\ fcall.lastBackoff >= 2 * fcall.backoffs
                /\ fcall.lastBackoff <= 5 * fcall.backoffs
    /\ (FetchDone /\ fcall.attempt = fcall.requests) =>
          /\ fcall.result = [t |-> "None"]
          /\ fcall.requests = fcall.retries
          /\ fcall.retries > 0 => f_now = fcall.lastAt
    /\ (fpc = "loop" /\ ~AttemptLimit(fcall)) => ENABLED FetchGiveUp

\* a call with two retries failed twice and returned None
C6_Witness ==
    /\ FetchDone
    /\ fcall.retries = 2 /\ fcall.requests = 2 /\ fcall.attempt = 2
    /\ fcall.backoffs = 1
    /\ fcall.result = [t |-> "None"]

\* C7: with the cache enabled, a successful fetch(url) leaves the page text in the
\* cache entry keyed by the MD5 of the url, and a later fetch(url) without
\* force_download returns the cached text without a network request;
\* fetch_full_response never reads the cache and always performs a request.
C7_CacheWriteThrough ==
    /\ (FetchDone /\ cache_enabled /\ fcall.kind = "fetch" /\ fcall.result.t = "str") =>
          /\ CachePath(fcall.url) \in DOMAIN cache
          /\ cache[CachePath(fcall.url)] = fcall.result.text
    /\ (FetchDone /\ cache_enabled /\ fcall.kind = "fetch" /\ ~fcall.force
          /\ fcall.seenBefore) =>
          /\ fcall.requests = 0
          /\ fcall.result.t = "str"
    /\ (FetchDone /\ fcall.kind = "full" /\ fcall.retries > 0) =>
          fcall.requests >= 1

\* =================================================================
\*  fetch_shodan: one lookup per address (scraper/utils/clients.py)
\* =================================================================
MaxAddresses == 2

Addresses == {"1.2.3.4", "bad-ip", "5.6.7.8"}

\* lists of distinct addresses (the A records of a name, or the target itself)
AddressLists ==
    {l \in UNION {[1..n -> Addresses] : n \in 0..MaxAddresses} :
        \A i, j \in DOMAIN l : i # j => l[i] # l[j]}

\* "" stands for a missing key: None and "" are both false in `if not api_key`
ApiKeys == {"", "KEY"}

\* host records as api.host returns them; a key may be missing or empty
HostInfos ==
    {[ports |-> <<443, 80>>, hostnames |-> <<"b.example", "a.example">>, org |-> "Acme",
      isp |-> "NetCo", vulns |-> <<"CVE-2", "CVE-1">>],
     [ports |-> <<22, 80>>, hostnames |-> <<>>, org |-> "", isp |-> "ZetaNet"],
     [ports |-> <<>>, org |-> "Acme"]}

\* what api.host(ip) does: a host record, shodan.APIError, or another exception
HostOutcomes ==
    {[t |-> "host", info |-> h] : h \in HostInfos}
    \cup {[t |-> "APIError", value |-> "No information available for that IP."],
          [t |-> "Exception", value |-> "Read timed out"]}

\* Python's order of the strings that occur in host records
StrOrder == <<"Acme", "CVE-1", "CVE-2", "NetCo", "ZetaNet", "a.example", "b.example">>

StrRank(x) == CHOOSE i \in DOMAIN StrOrder : StrOrder[i] = x

\* sorted(list(S))
SortedInts(S) == CHOOSE l \in Orderings(S) : \A i, j \in DOMAIN l : i < j => l[i] < l[j]

SortedStrs(S) ==
    CHOOSE l \in Orderings(S) : \A i, j \in DOMAIN l : i < j => StrRank(l[i]) < StrRank(l[j])

\* d[k] = v on a dictionary
DictSet(d, k, v) == [x \in DOMAIN d \cup {k} |-> IF x = k THEN v ELSE d[x]]

\* the results dictionary before the loop
NewResults(ips) ==
    [ips_queried |-> ips,
     data_by_ip |-> EmptyDict,
     summary |-> [ports |-> {}, hostnames |-> {}, organizations |-> {}, isps |-> {},
                  vulnerabilities |-> {}]]

\* the try body for one address: store the record, update the summary
OnHostInfo(res, ip, host_info) ==
    LET sm == res.summary
        ports == Get(host_info, "ports", <<>>)
        hostnames == Get(host_info, "hostnames", <<>>)
        org == Get(host_info, "org", "")
        isp == Get(host_info, "isp", "")
        vulns == Get(host_info, "vulns", <<>>)
    IN  [res EXCEPT
           !.data_by_ip = DictSet(@, ip, host_info),
           !.summary = [ports |-> sm.ports \cup SeqRange(ports),
                        hostnames |-> sm.hostnames \cup SeqRange(hostnames),
                        organizations |-> sm.organizations \cup (IF org # "" THEN {org} ELSE {}),
                        isps |-> sm.isps \cup (IF isp # "" THEN {isp} ELSE {}),
                        vulnerabilities |-> sm.vulnerabilities \cup SeqRange(vulns)]]

OnAddressErrorDropsOthers(res, ip, out) ==
    [res EXCEPT !.data_by_ip = DictSet(EmptyDict, ip, [error |-> out.value])]

\* the two except clauses for one address
OnAddressError(res, ip, out) ==
    [res EXCEPT !.data_by_ip =
        DictSet(@, ip, IF out.t = "APIError"
                       THEN [error |-> out.value, status_code |-> out.value]
                       ELSE [error |-> <<"Unexpected error: ", out.value>>])]

\* the summary sets turned into sorted lists
SortedSummary(sm) ==
    [ports |-> SortedInts(sm.ports),
     hostnames |-> SortedStrs(sm.hostnames),
     organizations |-> SortedStrs(sm.organizations),
     isps |-> SortedStrs(sm.isps),
     vulnerabilities |-> SortedStrs(sm.vulnerabilities)]

\* fetch_shodan(ips, key) is entered: the two early returns, or the loop starts
ShodanCall(ips, key) ==
    /\ sh_pc = "idle"
    /\ ip_addresses' = ips
    /\ api_key' = key
    /\ sh_outcomes' = <<>>
    /\ IF key = ""
       THEN /\ sh_ret' = [error |-> "API key for Shodan not provided"]
            /\ sh_pc' = "done"
            /\ UNCHANGED <<results, sh_i>>
       ELSE IF ips = <<>>
       THEN /\ sh_ret' = [info |-> "No IP addresses provided", data_by_ip |-> EmptyDict,
                          summary |-> EmptyDict]
            /\ sh_pc' = "done"
            /\ UNCHANGED <<results, sh_i>>
       ELSE /\ results' = NewResults(ips)
            /\ sh_i' = 1
            /\ sh_pc' = "loop"
            /\ UNCHANGED sh_ret
    /\ UNCHANGED exceptShodan

\* one pass of `for ip in ip_addresses`
ShodanQuery ==
    /\ sh_pc = "loop"
    /\ sh_i <= Len(ip_addresses)
    /\ \E out \in HostOutcomes :
        /\ results' = IF out.t = "host"
                      THEN OnHostInfo(results, ip_addresses[sh_i], out.info)
                      ELSE OnAddressError(results, ip_addresses[sh_i], out)
        /\ sh_outcomes' = Append(sh_outcomes, out)
    /\ sh_i' = sh_i + 1
    /\ UNCHANGED <<sh_pc, ip_addresses, api_key, sh_ret>>
    /\ UNCHANGED exceptShodan

\* after the loop: sort the summary and return results
ShodanFinish ==
    /\ sh_pc = "loop"
    /\ sh_i > Len(ip_addresses)
    /\ results' = [results EXCEPT !.summary = SortedSummary(@)]
    /\ sh_ret' = results'
    /\ sh_pc' = "done"
    /\ UNCHANGED <<ip_addresses, api_key, sh_i, sh_outcomes>>
    /\ UNCHANGED exceptShodan

ShodanStart == \E ips \in AddressLists, key \in ApiKeys : ShodanCall(ips, key)

InitShodan == /\ IdleExceptShodan
              /\ sh_pc = "idle"
              /\ ip_addresses = <<>>
              /\ api_key = ""
              /\ results = EmptyDict
              /\ sh_i = 0
              /\ sh_outcomes = <<>>
              /\ sh_ret = EmptyDict

NextShodan == ShodanStart \/ ShodanQuery \/ ShodanFinish

SpecShodan == InitShodan /\ [][NextShodan]_vars

ShodanBatchDone == sh_pc = "done" /\ api_key # "" /\ ip_addresses # <<>>

\* C8: when fetch_shodan(addresses, key) returns for a key and a non-empty list,
\* every address was queried; an address whose lookup failed has an {error} entry
\* under data_by_ip; every address whose lookup succeeded has its full record
\* under data_by_ip and its ports, hostnames, organisation, isp and vulns in the
\* summary; and the returned dictionary has no top-level "error".
C8_PerAddressErrors ==
    ShodanBatchDone =>
        /\ "error" \notin DOMAIN sh_ret
        /\ Len(sh_outcomes) = Len(ip_addresses)
        /\ DOMAIN sh_ret.data_by_ip = SeqRange(ip_addresses)
        /\ \A i \in DOMAIN ip_addresses :
            LET entry == sh_ret.data_by_ip[ip_addresses[i]]
                out == sh_outcomes[i]
            IN  IF out.t = "host"
                THEN /\ entry = out.info
                     /\ SeqRange(Get(out.info, "ports", <<>>)) \subseteq SeqRange(sh_ret.summary.ports)
                     /\ SeqRange(Get(out.info, "hostnames", <<>>)) \subseteq SeqRange(sh_ret.summary.hostnames)
                     /\ SeqRange(Get(out.info, "vulns", <<>>)) \subseteq SeqRange(sh_ret.summary.vulnerabilities)
                     /\ Get(out.info, "org", "") # "" =>
                            out.info.org \in SeqRange(sh_ret.summary.organizations)
                     /\ Get(out.info, "isp", "") # "" =>
                            out.info.isp \in SeqRange(sh_ret.summary.isps)
                ELSE /\ "error" \in DOMAIN entry
                     /\ "ports" \notin DOMAIN entry

\* a batch of two where the first address succeeded and the second failed
C8_Witness ==
    /\ ShodanBatchDone
    /\ Len(ip_addresses) = 2
    /\ sh_outcomes[1].t = "host" /\ sh_outcomes[1].info.ports # <<>>
    /\ sh_outcomes[2].t = "APIError"
    /\ "error" \in DOMAIN sh_ret.data_by_ip[ip_addresses[2]]
    /\ sh_ret.data_by_ip[ip_addresses[1]] = sh_outcomes[1].info

\* =================================================================
\*  validate_domain (scraper/utils/validators.py)
\* =================================================================
MaxBodyLen == 4

LabelMax == 63
TldMin == 2
TldMax == 63

Letters == {"a", "b", "c", "d", "e", "f", "g", "h", "i", "j", "k", "l", "m", "n", "o", "p",
            "q", "r", "s", "t", "u", "v", "w", "x", "y", "z"}

\* the characters str.strip() removes, among those of the model's inputs
Whitespace == {" ", "\n", "\t"}

RECURSIVE LStrip(_)
LStrip(s) == IF s # <<>> /\ Head(s) \in Whitespace THEN LStrip(Tail(s)) ELSE s

RECURSIVE RStrip(_)
RStrip(s) ==
    IF s # <<>> /\ s[Len(s)] \in Whitespace THEN RStrip(SubSeq(s, 1, Len(s) - 1)) ELSE s

Strip(s) == RStrip(LStrip(s))

\* s.find(sep) + 1: position of the first occurrence of sep, 0 when there is none
Find(s, sep) ==
    LET hits == {i \in 1..(Len(s) - Len(sep) + 1) : SubSeq(s, i, i + Len(sep) - 1) = sep}
    IN  IF hits = {} THEN 0 ELSE CHOOSE i \in hits : \A j \in hits : i <= j

\* s.split(sep, 1)[0]
SplitHead(s, sep) == IF Find(s, sep) = 0 THEN s ELSE SubSeq(s, 1, Find(s, sep) - 1)

\* s.split(sep, 1)[1], for an s that contains sep
SplitRest(s, sep) == SubSeq(s, Find(s, sep) + Len(sep), Len(s))

\* the pieces of s between its dots
RECURSIVE DotParts(_)
DotParts(s) ==
    IF Find(s, <<".">>) = 0 THEN <<s>>
    ELSE <<SplitHead(s, <<".">>)>> \o DotParts(SplitRest(s, <<".">>))

\* (?!-)[a-z0-9-]{1,63}(?<!-) : one label of the pattern
PatternLabel(l) ==
    /\ Len(l) >= 1 /\ Len(l) <= LabelMax
    /\ \A i \in DOMAIN l : l[i] \in Letters \cup Digits \cup {"-"}
    /\ l[1] # "-"
    /\ l[Len(l)] # "-"

\* [a-z]{2,63}
PatternTld(l) ==
    /\ Len(l) >= TldMin /\ Len(l) <= TldMax
    /\ \A i \in DOMAIN l : l[i] \in Letters

\* ((?!-)[a-z0-9-]{1,63}(?<!-)\.)+[a-z]{2,63} against the whole of x
PatternBody(x) ==
    LET parts == DotParts(x)
    IN  /\ Len(parts) >= 2
        /\ \A i \in 1..(Len(parts) - 1) : PatternLabel(parts[i])
        /\ PatternTld(parts[Len(parts)])

\* re.match(domain_pattern, domain): `$` matches at the end of the string and
\* also just before a newline that ends the string
DomainPatternMatches(d) ==
    \/ PatternBody(d)
    \/ d # <<>> /\ d[Len(d)] = "\n" /\ PatternBody(SubSeq(d, 1, Len(d) - 1))

Invalid == [ok |-> FALSE, domain |-> NullText]

validate_domain(domain) ==
    LET d0 == Lower(Strip(domain))
        d1 == IF StartsWith(d0, <<"h", "t", "t", "p", ":", "/", "/">>) \/ StartsWith(d0, <<"h", "t", "t", "p", "s", ":", "/", "/">>)
              THEN SplitRest(d0, <<":", "/", "/">>) ELSE d0
        d2 == SplitHead(d1, <<"/">>)
        d3 == SplitHead(d2, <<"?">>)
        d4 == SplitHead(d3, <<":">>)
        d5 == IF StartsWith(d4, <<"w", "w", "w", ".">>) THEN SubSeq(d4, 5, Len(d4)) ELSE d4
    IN  IF d0 = <<>> THEN Invalid
        ELSE IF ~DomainPatternMatches(d5) THEN Invalid
        ELSE [ok |-> TRUE, domain |-> d5]

ExampleInput == <<"H", "T", "T", "P", ":", "/", "/", "W", "W", "W", ".", "E", "x", "a", "m", "p", "l", "e", ".", "c", "o", "m", "/", "p", "a", "t", "h", "?", "x", "=", "1">>

ExampleDomain == <<"e", "x", "a", "m", "p", "l", "e", ".", "c", "o", "m">>

\* inputs: optional blanks, scheme, www., a body over a small alphabet, an optional
\* blank or line break after it, a path / query / port, and a final line break
BodyAlphabet == {"a", "1", "-", "."}

Bodies == UNION {[1..n -> BodyAlphabet] : n \in 0..MaxBodyLen}

ValidateInputs ==
    {lead \o scheme \o www \o body \o gap \o rest :
        lead \in {<<>>, <<" ">>},
        scheme \in {<<>>, <<"H", "T", "T", "P", ":", "/", "/">>, <<"h", "t", "t", "p", "s", ":", "/", "/">>},
        www \in {<<>>, <<"W", "W", "W", ".">>},
        body \in Bodies,
        gap \in {<<>>, <<"\n">>, <<" ">>},
        rest \in {<<>>, <<"/", "p", "a", "t", "h", "?", "x", "=", "1">>, <<":", "8", "0">>, <<"?", "x">>}}
    \cup {ExampleInput}

ValidateCall ==
    /\ vd_pc = "call"
    /\ vd_result' = validate_domain(vd_input)
    /\ vd_pc' = "done"
    /\ UNCHANGED vd_input
    /\ UNCHANGED exceptValidate

InitValidate == /\ IdleExceptValidate
                /\ vd_input \in ValidateInputs
                /\ vd_pc = "call"
                /\ vd_result = EmptyDict

NextValidate == ValidateCall

SpecValidate == InitValidate /\ [][NextValidate]_vars

\* the input with surrounding blanks dropped, lowercased, without an http/https
\* scheme, cut at the first '/', '?' or ':', and without a leading "www."
Normalised(input) ==
    LET l == Lower(Strip(input))
        a == IF StartsWith(l, <<"h", "t", "t", "p", ":", "/", "/">>) THEN SubSeq(l, 8, Len(l))
             ELSE IF StartsWith(l, <<"h", "t", "t", "p", "s", ":", "/", "/">>) THEN SubSeq(l, 9, Len(l))
             ELSE l
        cuts == {i \in DOMAIN a : a[i] \in {"/", "?", ":"}}
        b == IF cuts = {} THEN a ELSE SubSeq(a, 1, (CHOOSE i \in cuts : \A j \in cuts : i <= j) - 1)
    IN  IF StartsWith(b, <<"w", "w", "w", ".">>) THEN SubSeq(b, 5, Len(b)) ELSE b

\* a dotted hostname: letters, digits and hyphens in labels separated by single
\* dots, at least two labels, the last one alphabetic
WellFormedHostname(d) ==
    /\ d # <<>>
    /\ \A i \in DOMAIN d : d[i] \in Letters \cup Digits \cup {"-", "."}
    /\ d[1] # "." /\ d[Len(d)] # "."
    /\ \A i \in 1..(Len(d) - 1) : ~(d[i] = "." /\ d[i + 1] = ".")
    /\ \E i \in DOMAIN d : d[i] = "."
    /\ \A i \in DOMAIN d : (\A j \in i..Len(d) : d[j] # ".") => d[i] \in Letters

\* C9: validate_domain returns (true, d) only when d is the input lowercased with
\* the scheme, everything from the first '/', '?' or ':' and a leading "www."
\* removed and d is a well-formed dotted hostname ending in an alphabetic TLD;
\* otherwise it returns (false, None); the example input gives (true, "example.com").
C9_ValidateDomain ==
    vd_pc = "done" =>
        /\ vd_result.ok =>
              /\ vd_result.domain = Normalised(vd_input)
              /\ WellFormedHostname(vd_result.domain)
        /\ ~vd_result.ok => vd_result.domain = NullText
        /\ vd_input = ExampleInput => vd_result = [ok |-> TRUE, domain |-> ExampleDomain]

\* =================================================================
\*  RobotsParser.parse (scraper/utils/robots_parser.py)
\* =================================================================
MaxLines == 3

\* SENSITIVE_PATTERNS; "ANY" is the regex dot, "DIGITS" is \d+
SENSITIVE_PATTERNS ==
    <<<<"a", "d", "m", "i", "n">>,
       <<"b", "a", "c", "k", "u", "p">>,
       <<"s", "t", "a", "g", "i", "n", "g">>,
       <<"d", "e", "v">>,
       <<"t", "e", "s", "t">>,
       <<"b", "e", "t", "a">>,
       <<"w", "p", "-", "a", "d", "m", "i", "n">>,
       <<"a", "d", "m", "i", "n", "i", "s", "t", "r", "a", "t", "o", "r">>,
       <<"l", "o", "g", "i", "n">>,
       <<"u", "s", "e", "r">>,
       <<"c", "o", "n", "s", "o", "l", "e">>,
       <<"d", "a", "s", "h", "b", "o", "a", "r", "d">>,
       <<"p", "r", "i", "v", "a", "t", "e">>,
       <<"s", "e", "c", "r", "e", "t">>,
       <<"i", "n", "t", "e", "r", "n", "a", "l">>,
       <<"c", "o", "n", "f", "i", "g">>,
       <<"s", "e", "t", "u", "p">>,
       <<"i", "n", "s", "t", "a", "l", "l">>,
       <<"p", "h", "p", "m", "y">>,
       <<"s", "q", "l">>,
       <<"d", "a", "t", "a", "b", "a", "s", "e">>,
       <<"d", "b">>,
       <<"t", "e", "m", "p">>,
       <<"t", "m", "p">>,
       <<"o", "l", "d">>,
       <<"b", "a", "k">>,
       <<"ANY", "g", "i", "t">>,
       <<"ANY", "s", "v", "n">>,
       <<"ANY", "e", "n", "v">>,
       <<"a", "p", "i", "/", "i", "n", "t", "e", "r", "n", "a", "l">>,
       <<"a", "p", "i", "/", "p", "r", "i", "v", "a", "t", "e">>,
       <<"a", "p", "i", "/", "v", "DIGITS", "/", "a", "d", "m", "i", "n">>>>

\* pattern.search(path) with re.IGNORECASE, from position i of path and k of pat
RECURSIVE MatchAt(_, _, _, _)
MatchAt(path, i, pat, k) ==
    IF k > Len(pat) THEN TRUE
    ELSE IF i > Len(path) THEN FALSE
    ELSE IF pat[k] = "ANY" THEN path[i] # "\n" /\ MatchAt(path, i + 1, pat, k + 1)
    ELSE IF pat[k] = "DIGITS"
    THEN IsDigit(path[i]) /\ (MatchAt(path, i + 1, pat, k) \/ MatchAt(path, i + 1, pat, k + 1))
    ELSE LowerChar(path[i]) = pat[k] /\ MatchAt(path, i + 1, pat, k + 1)

_is_sensitive_path(path) ==
    \E n \in DOMAIN SENSITIVE_PATTERNS :
        \E i \in DOMAIN path : MatchAt(path, i, SENSITIVE_PATTERNS[n], 1)

\* the lines robots.txt files of the model are made of
LinePool ==
    {<<"U", "s", "e", "r", "-", "a", "g", "e", "n", "t", ":", " ", "*">>,
     <<"U", "S", "E", "R", "-", "A", "G", "E", "N", "T", ":", " ", "G", "o", "o", "g", "l", "e", "B", "o", "t">>,
     <<" ", "D", "i", "s", "a", "l", "l", "o", "w", ":", " ", "/", "A", "d", "m", "i", "n">>,
     <<"A", "l", "l", "o", "w", ":", "/", "p", "u", "b", "l", "i", "c">>,
     <<"D", "i", "s", "a", "l", "l", "o", "w", ":", " ", "/", "l", "e", "g", "i", "t">>,
     <<"S", "i", "t", "e", "m", "a", "p", ":", " ", "h", "t", "t", "p", ":", "/", "/", "a", ".", "t", "e", "s", "t", "/", "s", ".", "x", "m", "l">>,
     <<"C", "r", "a", "w", "l", "-", "d", "e", "l", "a", "y", ":", " ", "1", "0">>,
     <<"c", "r", "a", "w", "l", "-", "d", "e", "l", "a", "y", ":", " ", "s", "o", "o", "n">>,
     <<"#", " ", "a", "l", "l", " ", "r", "o", "b", "o", "t", "s">>,
     <<>>}

RobotsFiles == UNION {[1..n -> LinePool] : n \in 0..MaxLines}

\* float(text): the numeric texts of the model's lines are runs of digits; any
\* other text of theirs raises ValueError
FloatParses(text) == text # <<>> /\ AllDigits(text)

RECURSIVE FloatValue(_)
FloatValue(text) ==
    IF text = <<>> THEN 0
    ELSE 10 * FloatValue(SubSeq(text, 1, Len(text) - 1)) + DigitVal(text[Len(text)])

\* RobotsData()
NewRobotsData == [rules |-> <<>>, sitemaps |-> <<>>, sensitive_paths |-> {}, crawl_delay |-> 0]

\* line.split(':', 1)[1].strip()
DirectiveValue(line) == Strip(SplitRest(line, <<":">>))

\* RobotsRule(path, allow, is_sensitive) appended, sensitive path recorded
AddRule(d, path, allow) ==
    [d EXCEPT !.rules = Append(@, [path |-> path, allow |-> allow,
                                   is_sensitive |-> _is_sensitive_path(path)]),
              !.sensitive_paths = IF _is_sensitive_path(path) THEN @ \cup {path} ELSE @]

SkipNever(agent, relevant) == FALSE

\* if current_agent != '*' and not in_relevant_agent: continue
SkipDirective(agent, relevant) == agent # <<"*">> /\ ~relevant

\* line.strip().lower(), for each line of the pool
LineText == [raw \in LinePool |-> Lower(Strip(raw))]

\* the body of the for loop on one raw line: the locals afterwards
AfterLine(st, raw) ==
    LET line == LineText[raw]
    IN  IF line = <<>> \/ StartsWith(line, <<"#">>) THEN st
        ELSE IF StartsWith(line, <<"u", "s", "e", "r", "-", "a", "g", "e", "n", "t", ":">>)
        THEN [st EXCEPT !.in_relevant_agent = (DirectiveValue(line) = <<"*">>),
                        !.current_agent = DirectiveValue(line)]
        ELSE IF SkipDirective(st.current_agent, st.in_relevant_agent) THEN st
        ELSE IF StartsWith(line, <<"a", "l", "l", "o", "w", ":">>)
        THEN [st EXCEPT !.data = AddRule(@, DirectiveValue(line), TRUE)]
        ELSE IF StartsWith(line, <<"d", "i", "s", "a", "l", "l", "o", "w", ":">>)
        THEN [st EXCEPT !.data = AddRule(@, DirectiveValue(line), FALSE)]
        ELSE IF StartsWith(line, <<"s", "i", "t", "e", "m", "a", "p", ":">>)
        THEN [st EXCEPT !.data.sitemaps = Append(@, DirectiveValue(line))]
        ELSE IF StartsWith(line, <<"c", "r", "a", "w", "l", "-", "d", "e", "l", "a", "y", ":">>)
        THEN IF FloatParses(DirectiveValue(line))
             THEN [st EXCEPT !.data.crawl_delay = FloatValue(DirectiveValue(line))]
             ELSE st
        ELSE st

\* one pass of `for line in robots_content.splitlines()`
ParseLine ==
    /\ rb_pc = "lines"
    /\ rb_i <= Len(robots_content)
    /\ \E st \in {AfterLine([current_agent |-> current_agent,
                              in_relevant_agent |-> in_relevant_agent,
                              data |-> robots_data], robots_content[rb_i])} :
           /\ current_agent' = st.current_agent
           /\ in_relevant_agent' = st.in_relevant_agent
           /\ robots_data' = st.data
           /\ rb_from' = [changed |-> IF st.data # robots_data THEN rb_from.changed \cup {rb_i}
                                      ELSE rb_from.changed,
                          rules |-> IF Len(st.data.rules) > Len(robots_data.rules)
                                    THEN Append(rb_from.rules, rb_i) ELSE rb_from.rules,
                          sitemaps |-> IF Len(st.data.sitemaps) > Len(robots_data.sitemaps)
                                       THEN Append(rb_from.sitemaps, rb_i) ELSE rb_from.sitemaps]
    /\ rb_i' = rb_i + 1
    /\ UNCHANGED <<robots_content, rb_pc>>
    /\ UNCHANGED exceptRobots

\* return data
ParseReturn ==
    /\ rb_pc = "lines"
    /\ rb_i > Len(robots_content)
    /\ rb_pc' = "done"
    /\ UNCHANGED <<robots_content, rb_i, current_agent, in_relevant_agent, robots_data, rb_from>>
    /\ UNCHANGED exceptRobots

InitRobots == /\ IdleExceptRobots
              /\ robots_content \in RobotsFiles
              /\ rb_pc = "lines"
              /\ rb_i = 1
              /\ current_agent = <<"*">>
              /\ in_relevant_agent = FALSE
              /\ robots_data = NewRobotsData
              /\ rb_from = [changed |-> {}, rules |-> <<>>, sitemaps |-> <<>>]

NextRobots == ParseLine \/ ParseReturn

SpecRobots == InitRobots /\ [][NextRobots]_vars

\* reading of a robots.txt line: its text without surrounding blanks, lowercased
Directive(content, j) == Lower(Strip(content[j]))

IsUserAgentLine(content, j) == StartsWith(Directive(content, j), <<"u", "s", "e", "r", "-", "a", "g", "e", "n", "t", ":">>)

IsRuleLine(content, j) ==
    StartsWith(Directive(content, j), <<"a", "l", "l", "o", "w", ":">>) \/ StartsWith(Directive(content, j), <<"d", "i", "s", "a", "l", "l", "o", "w", ":">>)

IsSitemapLine(content, j) == StartsWith(Directive(content, j), <<"s", "i", "t", "e", "m", "a", "p", ":">>)

\* line j lies between a non-wildcard User-agent line and the next User-agent line
InNonWildcardBlock(content, j) ==
    \E k \in 1..(j - 1) :
        /\ IsUserAgentLine(content, k)
        /\ DirectiveValue(Directive(content, k)) # <<"*">>
        /\ \A l \in k..j : l # k => ~IsUserAgentLine(content, l)

Ascending(l) == \A i, j \in DOMAIN l : i < j => l[i] < l[j]

\* C10: no line lying between a non-wildcard User-agent line and the next
\* User-agent line changes the parsed data (rules, sitemaps, crawl_delay); the
\* rules and the sitemaps are, in file order, those of the Allow / Disallow and
\* Sitemap lines outside such blocks.
C10_WildcardOnly ==
    /\ rb_pc \in {"lines", "done"} =>
          /\ \A j \in rb_from.changed : ~InNonWildcardBlock(robots_content, j)
          /\ Ascending(rb_from.rules) /\ Ascending(rb_from.sitemaps)
          /\ Len(robots_data.rules) = Len(rb_from.rules)
          /\ Len(robots_data.sitemaps) = Len(rb_from.sitemaps)
          /\ \A n \in DOMAIN robots_data.rules :
                /\ IsRuleLine(robots_content, rb_from.rules[n])
                /\ robots_data.rules[n].path = DirectiveValue(Directive(robots_content, rb_from.rules[n]))
                /\ robots_data.rules[n].allow = StartsWith(Directive(robots_content, rb_from.rules[n]), <<"a", "l", "l", "o", "w", ":">>)
          /\ \A n \in DOMAIN robots_data.sitemaps :
                /\ IsSitemapLine(robots_content, rb_from.sitemaps[n])
                /\ robots_data.sitemaps[n] = DirectiveValue(Directive(robots_content, rb_from.sitemaps[n]))
    /\ rb_pc = "done" =>
          /\ SeqRange(rb_from.rules) =
                {j \in DOMAIN robots_content :
                    IsRuleLine(robots_content, j) /\ ~InNonWildcardBlock(robots_content, j)}
          /\ SeqRange(rb_from.sitemaps) =
                {j \in DOMAIN robots_content :
                    IsSitemapLine(robots_content, j) /\ ~InNonWildcardBlock(robots_content, j)}

\* a parsed file with a rule before a named agent's block and a rule line inside
\* that block, which was skipped
C10_Witness ==
    /\ rb_pc = "done"
    /\ Len(robots_data.rules) = 1
    /\ \E j \in DOMAIN robots_content :
          /\ IsRuleLine(robots_content, j)
          /\ InNonWildcardBlock(robots_content, j)
          /\ j > rb_from.rules[1]

\* ---------------------------------------------------------------- C11
\* the sensitive fragments as texts: admin, backup, ..., .git, .svn, .env, ...
\* (the last pattern, api/v<digits>/admin, only matches paths that contain admin)
SensitiveFragments ==
    {<<"a", "d", "m", "i", "n">>,
     <<"b", "a", "c", "k", "u", "p">>,
     <<"s", "t", "a", "g", "i", "n", "g">>,
     <<"d", "e", "v">>,
     <<"t", "e", "s", "t">>,
     <<"b", "e", "t", "a">>,
     <<"w", "p", "-", "a", "d", "m", "i", "n">>,
     <<"a", "d", "m", "i", "n", "i", "s", "t", "r", "a", "t", "o", "r">>,
     <<"l", "o", "g", "i", "n">>,
     <<"u", "s", "e", "r">>,
     <<"c", "o", "n", "s", "o", "l", "e">>,
     <<"d", "a", "s", "h", "b", "o", "a", "r", "d">>,
     <<"p", "r", "i", "v", "a", "t", "e">>,
     <<"s", "e", "c", "r", "e", "t">>,
     <<"i", "n", "t", "e", "r", "n", "a", "l">>,
     <<"c", "o", "n", "f", "i", "g">>,
     <<"s", "e", "t", "u", "p">>,
     <<"i", "n", "s", "t", "a", "l", "l">>,
     <<"p", "h", "p", "m", "y">>,
     <<"s", "q", "l">>,
     <<"d", "a", "t", "a", "b", "a", "s", "e">>,
     <<"d", "b">>,
     <<"t", "e", "m", "p">>,
     <<"t", "m", "p">>,
     <<"o", "l", "d">>,
     <<"b", "a", "k">>,
     <<".", "g", "i", "t">>,
     <<".", "s", "v", "n">>,
     <<".", "e", "n", "v">>,
     <<"a", "p", "i", "/", "i", "n", "t", "e", "r", "n", "a", "l">>,
     <<"a", "p", "i", "/", "p", "r", "i", "v", "a", "t", "e">>}

ContainsFragment(path) ==
    \E f \in SensitiveFragments : Find(Lower(path), f) > 0

\* C11: in the data parse builds, a rule is flagged sensitive exactly when its path
\* contains one of the sensitive fragments, for Allow and Disallow alike, and
\* sensitive_paths is the set of the paths of the flagged rules.
C11_SensitiveFlag ==
    rb_pc \in {"lines", "done"} =>
        /\ \A n \in DOMAIN robots_data.rules :
              robots_data.rules[n].is_sensitive = ContainsFragment(robots_data.rules[n].path)
        /\ robots_data.sensitive_paths =
              {robots_data.rules[n].path : n \in {k \in DOMAIN robots_data.rules :
                                                     robots_data.rules[k].is_sensitive}}

\* =================================================================
\*  RobotsParser.is_allowed (scraper/utils/robots_parser.py)
\* =================================================================
MaxRules == 2

\* position of the first character of s, from position i on, that is in chars
\* (Len(s) + 1 when there is none)
FirstOf(s, i, chars) ==
    LET hits == {k \in i..Len(s) : s[k] \in chars}
    IN  IF hits = {} THEN Len(s) + 1 ELSE CHOOSE k \in hits : \A j \in hits : k <= j

\* urlparse(url).path for urls of the form scheme://host[/path][?query][#fragment]
UrlPath(url) ==
    LET afterScheme == Find(url, <<":", "/", "/">>) + 3
        pathStart == FirstOf(url, afterScheme, {"/", "?", "#"})
        pathEnd == FirstOf(url, pathStart, {"?", "#"})
    IN  SubSeq(url, pathStart, pathEnd - 1)

AllowedUrls ==
    {<<"h", "t", "t", "p", ":", "/", "/", "x", ".", "t", "e", "s", "t">>, <<"h", "t", "t", "p", ":", "/", "/", "x", ".", "t", "e", "s", "t", "/">>, <<"h", "t", "t", "p", ":", "/", "/", "x", ".", "t", "e", "s", "t", "/", "a">>, <<"h", "t", "t", "p", ":", "/", "/", "x", ".", "t", "e", "s", "t", "/", "a", "/", "b", "?", "q", "=", "1">>,
     <<"h", "t", "t", "p", ":", "/", "/", "x", ".", "t", "e", "s", "t", "/", "b", "#", "t", "o", "p">>, <<"h", "t", "t", "p", ":", "/", "/", "x", ".", "t", "e", "s", "t", "?", "q", "=", "/", "a">>}

RulePaths == {<<>>, <<"/">>, <<"/", "a">>, <<"/", "a", "/", "b">>}

RulePool == {[path |-> p, allow |-> a, is_sensitive |-> FALSE] : p \in RulePaths, a \in BOOLEAN}

RuleLists == UNION {[1..n -> RulePool] : n \in 0..MaxRules}

RulePrecedesShortestFirst(rules, i, j) ==
    \/ Len(rules[i].path) < Len(rules[j].path)
    \/ Len(rules[i].path) = Len(rules[j].path) /\ i < j

\* sorted(rules, key=lambda x: len(x.path), reverse=True): longer paths first, and
\* rules of equal length in their original order (the sort is stable)
RulePrecedes(rules, i, j) ==
    \/ Len(rules[i].path) > Len(rules[j].path)
    \/ Len(rules[i].path) = Len(rules[j].path) /\ i < j

SortedRules(rules) ==
    [n \in DOMAIN rules |->
        rules[CHOOSE i \in DOMAIN rules :
                 Cardinality({j \in DOMAIN rules : RulePrecedes(rules, j, i)}) = n - 1]]

is_allowed(url, rules) ==
    LET path == IF UrlPath(url) = <<>> THEN <<"/">> ELSE UrlPath(url)
        sorted_rules == SortedRules(rules)
        matching == {n \in DOMAIN sorted_rules : StartsWith(path, sorted_rules[n].path)}
    IN  IF matching = {} THEN TRUE
        ELSE sorted_rules[CHOOSE n \in matching : \A k \in matching : n <= k].allow

IsAllowedCall ==
    /\ fn_pc = "is_allowed"
    /\ fn_result' = is_allowed(fn_args.url, fn_args.rules)
    /\ fn_pc' = "is_allowed done"
    /\ UNCHANGED fn_args
    /\ UNCHANGED exceptPure

InitAllowed == /\ IdleExceptPure
               /\ fn_args \in [url : AllowedUrls, rules : RuleLists]
               /\ fn_pc = "is_allowed"
               /\ fn_result = EmptyDict

NextAllowed == IsAllowedCall

SpecAllowed == InitAllowed /\ [][NextAllowed]_vars

\* the path part of a url: what follows the host, up to '?' or '#'; "/" when empty
PathOfUrl(url) ==
    LET rest == SubSeq(url, Find(url, <<":", "/", "/">>) + 3, Len(url))
        cut == FirstOf(rest, 1, {"/", "?", "#"})
        tail == SubSeq(rest, cut, Len(rest))
        p == SubSeq(tail, 1, FirstOf(tail, 1, {"?", "#"}) - 1)
    IN  IF p = <<>> THEN <<"/">> ELSE p

MatchingRules(url, rules) == {i \in DOMAIN rules : StartsWith(PathOfUrl(url), rules[i].path)}

LongestMatches(url, rules) ==
    {i \in MatchingRules(url, rules) :
        \A j \in MatchingRules(url, rules) : Len(rules[j].path) <= Len(rules[i].path)}

\* C12: is_allowed(url, rules) returns the allow flag of a rule whose path is the
\* longest one among the rule paths that are prefixes of the url's path (an empty
\* url path counts as "/"), and TRUE when no rule path is a prefix of it.
C12_LongestPrefixWins ==
    fn_pc = "is_allowed done" =>
        IF MatchingRules(fn_args.url, fn_args.rules) = {}
        THEN fn_result = TRUE
        ELSE \E i \in LongestMatches(fn_args.url, fn_args.rules) :
                fn_result = fn_args.rules[i].allow

\* a shorter rule listed first and a longer one with the opposite flag both match,
\* and the longer one decided
C12_Witness ==
    /\ fn_pc = "is_allowed done"
    /\ Len(fn_args.rules) = 2
    /\ MatchingRules(fn_args.url, fn_args.rules) = {1, 2}
    /\ Len(fn_args.rules[1].path) < Len(fn_args.rules[2].path)
    /\ fn_args.rules[1].allow # fn_args.rules[2].allow
    /\ fn_result = fn_args.rules[2].allow

\* =================================================================
\*  filter_phone_numbers called on its own (scraper/utils/extractors.py)
\* =================================================================
MaxPhones == 2

\* candidate numbers: E.164 and spaced forms, dates, an address, digit runs,
\* a timestamp, too short and too long values
PhonePool ==
    {<<"+", "1", "4", "1", "5", "5", "5", "5", "2", "6", "7", "1">>,
     <<"+", "1", " ", "4", "1", "5", " ", "5", "5", "5", " ", "2", "6", "7", "1">>,
     <<"+", "+", "1", "4", "1", "5", "5", "5", "5", "2", "6", "7", "1">>,
     <<"2", "0", "2", "3", "0", "6", "1", "5">>,
     <<"2", "0", "2", "3", "-", "0", "6", "-", "1", "5">>,
     <<"0", "6", "1", "5", "2", "0", "2", "3">>,
     <<"1", "2", "3", "4", "5", "6">>,
     <<"1", "9", "2", ".", "1", "6", "8", ".", "1", "0", "0", ".", "2", "0", "0">>,
     <<"1", "2", "3", "4", "5", "6", "7", "8", "9">>,
     <<"1", "2", " ", "3", "4", " ", "5", "6", " ", "7", "8", " ", "9">>,
     <<"0", "1", "2", "3", "4", "5", "6", "7", "8", "9">>,
     <<"1", "7", "0", "0", "0", "0", "0", "0", "0", "0">>,
     <<"4", "1", "5", "5", "5", "5", "2", "6", "7", "1">>,
     <<"1", "2", "3", "4", "5", "6", "7">>,
     <<"1", "2", "3", "4", "5", "6", "7", "8", "9", "0", "1", "2", "3", "4", "5", "6">>,
     <<"+", "2", "0", "2", "3", "0", "6", "1", "5">>}

PhoneSets == {S \in SUBSET PhonePool : Cardinality(S) <= MaxPhones}

FilterPhonesCall ==
    /\ fn_pc = "filter_phone_numbers"
    /\ fn_result' = filter_phone_numbers(fn_args.phone_numbers)
    /\ fn_pc' = "filter_phone_numbers done"
    /\ UNCHANGED fn_args
    /\ UNCHANGED exceptPure

InitPhones == /\ IdleExceptPure
              /\ fn_args \in [phone_numbers : PhoneSets]
              /\ fn_pc = "filter_phone_numbers"
              /\ fn_result = EmptyDict

NextPhones == FilterPhonesCall

SpecPhones == InitPhones /\ [][NextPhones]_vars

\* the digits of an input, behind one '+' when the input starts with '+'
DigitsOnly(p) ==
    (IF p # <<>> /\ p[1] = "+" THEN <<"+">> ELSE <<>>) \o SelectSeq(p, IsDigit)

DigitCount(v) == Len(SelectSeq(v, IsDigit))

\* YYYYMMDD, DDMMYYYY or any bare run of 6 or 8 digits
DateShaped(v) == AllDigits(v) /\ Len(v) \in {6, 8}

\* four dot-separated groups of digits
Ipv4Shaped(v) ==
    /\ Cardinality({i \in DOMAIN v : v[i] = "."}) = 3
    /\ \A i \in DOMAIN v : v[i] = "." \/ IsDigit(v[i])

\* every digit is the previous one plus one
AscendingDigits(v) ==
    /\ Len(v) >= 6
    /\ AllDigits(v)
    /\ \A i \in 2..Len(v) : DigitVal(v[i]) = DigitVal(v[i - 1]) + 1

\* ten digits read as seconds since 1970: 1000000000 (2001) up to 2999999999 (2065)
TimestampLike(v) == AllDigits(v) /\ Len(v) = 10 /\ v[1] \in {"1", "2"}

ExamplePhone == <<"+", "1", "4", "1", "5", "5", "5", "5", "2", "6", "7", "1">>

\* C13: every value filter_phone_numbers returns has between 8 and 15 digits (a
\* leading '+' not counted), is the digits of some input behind at most one '+',
\* and is not a bare 6- or 8-digit (date) run, not IPv4-shaped, not an ascending
\* digit sequence and not a ten-digit timestamp; "+14155552671" is kept.
C13_PhoneFilter ==
    fn_pc = "filter_phone_numbers done" =>
        /\ \A v \in fn_result :
              /\ DigitCount(v) >= 8 /\ DigitCount(v) <= 15
              /\ \E p \in fn_args.phone_numbers : v = DigitsOnly(p)
              /\ ~DateShaped(v)
              /\ ~Ipv4Shaped(v)
              /\ ~AscendingDigits(v)
              /\ ~TimestampLike(v)
        /\ ExamplePhone \in fn_args.phone_numbers => ExamplePhone \in fn_result

\* the example number is kept while an ascending run given with it is dropped
C13_Witness ==
    /\ fn_pc = "filter_phone_numbers done"
    /\ fn_args.phone_numbers = {ExamplePhone, <<"1", "2", " ", "3", "4", " ", "5", "6", " ", "7", "8", " ", "9">>}
    /\ fn_result = {ExamplePhone}

\* =================================================================
\*  filter_emails (scraper/utils/extractors.py)
\* =================================================================
MaxEmails == 2

HexMin == 12
HexMax == 64

service_domains ==
    {<<"s", "e", "n", "t", "r", "y", ".", "i", "o">>,
     <<"s", "e", "n", "t", "r", "y", ".", "w", "i", "x", "p", "r", "e", "s", "s", ".", "c", "o", "m">>,
     <<"s", "e", "n", "t", "r", "y", "-", "n", "e", "x", "t", ".", "w", "i", "x", "p", "r", "e", "s", "s", ".", "c", "o", "m">>,
     <<"c", "o", "n", "t", "a", "c", "t", "p", "r", "i", "v", "a", "c", "y", ".", "c", "o", "m">>,
     <<"w", "h", "o", "i", "s", ".", "t", "u", "c", "o", "w", "s", ".", "c", "o", "m">>,
     <<"d", "o", "m", "a", "i", "n", "s", "b", "y", "p", "r", "o", "x", "y", ".", "c", "o", "m">>,
     <<"s", "e", "c", "u", "r", "e", "s", "e", "r", "v", "e", "r", ".", "n", "e", "t">>,
     <<"h", "o", "s", "t", "m", "a", "s", "t", "e", "r", ".", "s", "k">>,
     <<"n", "i", "c", ".", "i", "t">>}

meaningful_terms ==
    {<<"i", "n", "f", "o">>,
     <<"c", "o", "n", "t", "a", "c", "t">>,
     <<"s", "u", "p", "p", "o", "r", "t">>,
     <<"h", "e", "l", "l", "o">>,
     <<"s", "a", "l", "e", "s">>,
     <<"a", "d", "m", "i", "n">>,
     <<"c", "o", "n", "t", "a", "t", "t", "i">>,
     <<"a", "s", "s", "i", "s", "t", "e", "n", "z", "a">>,
     <<"u", "f", "f", "i", "c", "i", "o">>,
     <<"o", "f", "f", "i", "c", "e">>,
     <<"s", "e", "g", "r", "e", "t", "e", "r", "i", "a">>,
     <<"p", "r", "i", "v", "a", "c", "y">>,
     <<"l", "e", "g", "a", "l">>,
     <<"t", "e", "a", "m">>,
     <<"s", "t", "a", "f", "f">>,
     <<"h", "e", "l", "p">>,
     <<"c", "u", "s", "t", "o", "m", "e", "r">>,
     <<"c", "l", "i", "e", "n", "t", "i">>,
     <<"r", "i", "c", "h", "i", "e", "s", "t", "e">>,
     <<"r", "i", "c", "h", "i", "e", "s", "t", "a">>,
     <<"r", "i", "c", "h", "i", "e", "s", "t", "e", " ", "g", "e", "n", "e", "r", "a", "l", "i">>,
     <<"p", "a", "r", "t", "n", "e", "r", "s", "h", "i", "p", "s">>,
     <<"m", "a", "r", "k", "e", "t", "i", "n", "g">>}

HexChars == Digits \cup {"a", "b", "c", "d", "e", "f"}

AtSign == <<"@">>

\* `$`: the end of the text, or just before a newline that ends it
AtDollar(s, i) == i = Len(s) + 1 \/ (i = Len(s) /\ s[i] = "\n")

\* the hex groups of uuid_pattern, each but the last followed by an optional hyphen
UuidGroups == <<8, 4, 4, 4, 12>>

RECURSIVE UuidFrom(_, _, _)
UuidFrom(s, i, groups) ==
    IF groups = <<>> THEN AtDollar(s, i)
    ELSE LET j == i + Head(groups)
         IN  /\ j - 1 <= Len(s)
             /\ \A k \in i..(j - 1) : LowerChar(s[k]) \in HexChars
             /\ \/ UuidFrom(s, j, Tail(groups))
                \/ /\ Len(groups) > 1
                   /\ j <= Len(s) /\ s[j] = "-"
                   /\ UuidFrom(s, j + 1, Tail(groups))

\* uuid_pattern.match(local_part)
UuidPatternMatches(s) == UuidFrom(s, 1, UuidGroups)

\* long_hex_pattern.match(local_part)
LongHexPatternMatches(s) ==
    \E n \in HexMin..HexMax :
        /\ n <= Len(s)
        /\ \A k \in 1..n : LowerChar(s[k]) \in HexChars
        /\ AtDollar(s, n + 1)

\* s.replace(sub, "")
RECURSIVE RemoveAll(_, _)
RemoveAll(s, sub) ==
    IF Find(s, sub) = 0 THEN s
    ELSE SubSeq(s, 1, Find(s, sub) - 1) \o RemoveAll(SplitRest(s, sub), sub)

KeepEmailWithAt(email, domain, keep_service_emails) == Find(email, AtSign) > 0

\* the loop body of filter_emails for one address: TRUE when it is added
KeepEmail(email, domain, keep_service_emails) ==
    LET local_part == Lower(SplitHead(email, AtSign))
        email_domain == Lower(SplitRest(email, AtSign))
        normalized_domain == Lower(domain)
        normalized_mail_domain == <<"m", "a", "i", "l", ".">> \o normalized_domain
        normalized_domain_no_www == RemoveAll(normalized_domain, <<"w", "w", "w", ".">>)
    IN  /\ Find(email, AtSign) > 0
        /\ ~(email_domain \in service_domains /\ ~keep_service_emails)
        /\ ~(UuidPatternMatches(local_part) \/ LongHexPatternMatches(local_part))
        /\ \/ email_domain = normalized_domain
           \/ email_domain = normalized_mail_domain
           \/ email_domain = normalized_domain_no_www
           \/ \E term \in meaningful_terms : Find(local_part, term) > 0

filter_emails(emails, domain, keep_service_emails) ==
    {e \in emails : KeepEmail(e, domain, keep_service_emails)}

EmailPool ==
    {<<"i", "n", "f", "o", "@", "a", "c", "m", "e", ".", "t", "e", "s", "t">>,
     <<"b", "o", "b", "@", "a", "c", "m", "e", ".", "t", "e", "s", "t">>,
     <<"B", "o", "b", "@", "M", "A", "I", "L", ".", "a", "c", "m", "e", ".", "t", "e", "s", "t">>,
     <<"b", "o", "b", "@", "w", "w", "w", ".", "a", "c", "m", "e", ".", "t", "e", "s", "t">>,
     <<"S", "a", "l", "e", "s", "@", "o", "t", "h", "e", "r", ".", "t", "e", "s", "t">>,
     <<"b", "o", "b", "@", "o", "t", "h", "e", "r", ".", "t", "e", "s", "t">>,
     <<"s", "u", "p", "p", "o", "r", "t", "@", "s", "e", "n", "t", "r", "y", ".", "i", "o">>,
     <<"b", "o", "b", "@", "n", "i", "c", ".", "i", "t">>,
     <<"0", "1", "2", "3", "4", "5", "6", "7", "8", "9", "a", "b", "c", "d", "e", "f", "0", "1", "2", "3", "4", "5", "6", "7", "8", "9", "A", "B", "C", "D", "E", "F", "@", "a", "c", "m", "e", ".", "t", "e", "s", "t">>,
     <<"d", "e", "a", "d", "b", "e", "e", "f", "0", "1", "2", "3", "@", "a", "c", "m", "e", ".", "t", "e", "s", "t">>,
     <<"1", "2", "3", "4", "5", "6", "7", "8", "-", "1", "2", "3", "4", "-", "1", "2", "3", "4", "-", "1", "2", "3", "4", "-", "1", "2", "3", "4", "5", "6", "7", "8", "9", "a", "b", "c", "@", "a", "c", "m", "e", ".", "t", "e", "s", "t">>,
     <<"n", "o", "t", "-", "a", "n", "-", "e", "m", "a", "i", "l">>}

EmailSets == {S \in SUBSET EmailPool : Cardinality(S) <= MaxEmails}

TargetDomains == {<<"a", "c", "m", "e", ".", "t", "e", "s", "t">>, <<"w", "w", "w", ".", "a", "c", "m", "e", ".", "t", "e", "s", "t">>, <<"A", "C", "M", "E", ".", "t", "e", "s", "t">>}

FilterEmailsCall ==
    /\ fn_pc = "filter_emails"
    /\ fn_result' = filter_emails(fn_args.emails, fn_args.domain, fn_args.keep_service_emails)
    /\ fn_pc' = "filter_emails done"
    /\ UNCHANGED fn_args
    /\ UNCHANGED exceptPure

InitEmails == /\ IdleExceptPure
              /\ fn_args \in [emails : EmailSets, domain : TargetDomains,
                              keep_service_emails : BOOLEAN]
              /\ fn_pc = "filter_emails"
              /\ fn_result = EmptyDict

NextEmails == FilterEmailsCall

SpecEmails == InitEmails /\ [][NextEmails]_vars

\* the two sides of an address, lowercased
LocalOf(e) == Lower(SubSeq(e, 1, FirstOf(e, 1, SeqRange(AtSign)) - 1))

DomainOf(e) == Lower(SubSeq(e, FirstOf(e, 1, SeqRange(AtSign)) + 1, Len(e)))

IsAddress(e) == \E i \in DOMAIN e : <<e[i]>> = AtSign

AllHex(s) == \A i \in DOMAIN s : LowerChar(s[i]) \in HexChars

NoHyphens(s) == SelectSeq(s, LAMBDA c : c # "-")

\* (a) the domain is the target, mail.<target> or the target without "www.", or
\* the local part contains a meaningful-contact term
MeetsA(e, target) ==
    \/ DomainOf(e) \in {Lower(target), <<"m", "a", "i", "l", ".">> \o Lower(target),
                        RemoveAll(Lower(target), <<"w", "w", "w", ".">>)}
    \/ \E t \in meaningful_terms :
          \E i \in 1..(Len(LocalOf(e)) - Len(t) + 1) : SubSeq(LocalOf(e), i, i + Len(t) - 1) = t

\* (b) the local part is neither a UUID (32 hex digits in groups of 8-4-4-4-12,
\* hyphens optional) nor 12 to 64 hex characters
MeetsB(e) ==
    LET l == LocalOf(e)
        hyphens == {i \in DOMAIN l : l[i] = "-"}
        uuid == /\ AllHex(NoHyphens(l))
                /\ Len(NoHyphens(l)) = 32
                /\ \A i \in hyphens :
                      Len(NoHyphens(SubSeq(l, 1, i))) \in {8, 12, 16, 20}
                /\ \A i \in hyphens : i + 1 \notin hyphens
    IN  ~uuid /\ ~(AllHex(l) /\ Len(l) >= 12 /\ Len(l) <= 64)

\* (c) not on a service / registrar domain, unless those are kept
MeetsC(e, keep) == keep \/ DomainOf(e) \notin service_domains

ExampleEmail == <<"i", "n", "f", "o", "@", "a", "c", "m", "e", ".", "t", "e", "s", "t">>

\* C14: filter_emails returns exactly the input addresses that meet (a), (b) and
\* (c); in particular info@acme.test is kept for the target acme.test.
C14_EmailFilter ==
    fn_pc = "filter_emails done" =>
        /\ fn_result \subseteq fn_args.emails
        /\ \A e \in fn_args.emails :
              e \in fn_result <=>
                 /\ IsAddress(e)
                 /\ MeetsA(e, fn_args.domain)
                 /\ MeetsB(e)
                 /\ MeetsC(e, fn_args.keep_service_emails)
        /\ (ExampleEmail \in fn_args.emails /\ fn_args.domain = <<"a", "c", "m", "e", ".", "t", "e", "s", "t">>
              /\ ~fn_args.keep_service_emails) => ExampleEmail \in fn_result

\* the example address is kept and an address on another domain without a
\* contact term is dropped
C14_Witness ==
    /\ fn_pc = "filter_emails done"
    /\ fn_args.emails = {ExampleEmail, <<"b", "o", "b", "@", "o", "t", "h", "e", "r", ".", "t", "e", "s", "t">>}
    /\ fn_args.domain = <<"a", "c", "m", "e", ".", "t", "e", "s", "t">>
    /\ ~fn_args.keep_service_emails
    /\ fn_result = {ExampleEmail}

\* =================================================================
\*  extract_emails on texts (scraper/utils/extractors.py)
\* =================================================================
MaxWords == 2

LocalMax == 64
DomainLabelMax == 63
DomainLabelsMax == 8
EmailTldMin == 2
EmailTldMax == 63
HashLen == 32
SmashLen == 4
SmashChars == 2

excluded_domains ==
    {<<"e", "x", "a", "m", "p", "l", "e", ".", "c", "o", "m">>,
     <<"d", "o", "m", "a", "i", "n", ".", "c", "o", "m">>,
     <<"y", "o", "u", "r", "s", "i", "t", "e", ".", "c", "o", "m">>,
     <<"y", "o", "u", "r", "d", "o", "m", "a", "i", "n", ".", "c", "o", "m">>,
     <<"e", "x", "a", "m", "p", "l", "e", ".", "o", "r", "g">>,
     <<"e", "m", "a", "i", "l", ".", "c", "o", "m">>,
     <<"t", "e", "s", "t", ".", "c", "o", "m">>,
     <<"s", "a", "m", "p", "l", "e", ".", "c", "o", "m">>}

excluded_extensions ==
    {<<".", "p", "n", "g">>,
     <<".", "j", "p", "g">>,
     <<".", "j", "p", "e", "g">>,
     <<".", "g", "i", "f">>,
     <<".", "w", "e", "b", "p">>,
     <<".", "s", "v", "g">>,
     <<".", "c", "s", "s">>,
     <<".", "j", "s">>,
     <<".", "p", "d", "f">>,
     <<".", "d", "o", "c">>,
     <<".", "m", "p", "3">>,
     <<".", "m", "p", "4">>}

UpperLetters == {"A", "B", "C", "D", "E", "F", "G", "H", "I", "J", "K", "L", "M", "N", "O", "P",
                 "Q", "R", "S", "T", "U", "V", "W", "X", "Y", "Z"}

AlphaNum == Letters \cup UpperLetters \cup Digits

\* email_pattern against a whole word: a local part of an alphanumeric character
\* and 1..64 more of [A-Za-z0-9._%+-], '@', 1..8 labels of [A-Za-z0-9-]{1,63}
\* each followed by a dot, and 2..63 letters
EmailPatternMatches(w) ==
    /\ Cardinality({i \in DOMAIN w : <<w[i]>> = AtSign}) = 1
    /\ LET local == SplitHead(w, AtSign)
           labels == DotParts(SplitRest(w, AtSign))
       IN  /\ Len(local) >= 2 /\ Len(local) <= LocalMax + 1
           /\ local[1] \in AlphaNum
           /\ \A i \in 2..Len(local) : local[i] \in AlphaNum \cup {".", "_", "%", "+", "-"}
           /\ Len(labels) >= 2 /\ Len(labels) <= DomainLabelsMax + 1
           /\ \A n \in 1..(Len(labels) - 1) :
                 /\ Len(labels[n]) >= 1 /\ Len(labels[n]) <= DomainLabelMax
                 /\ \A i \in DOMAIN labels[n] : labels[n][i] \in AlphaNum \cup {"-"}
           /\ Len(labels[Len(labels)]) >= EmailTldMin
           /\ Len(labels[Len(labels)]) <= EmailTldMax
           /\ \A i \in DOMAIN labels[Len(labels)] :
                 labels[Len(labels)][i] \in Letters \cup UpperLetters

\* the words of a text whose words are separated by single blanks
RECURSIVE Words(_)
Words(text) ==
    IF Find(text, <<" ">>) = 0 THEN <<text>>
    ELSE <<SplitHead(text, <<" ">>)>> \o Words(SplitRest(text, <<" ">>))

\* re.findall(email_pattern, text), for texts in which a word is an address
\* candidate as a whole or holds no complete candidate
EmailCandidates(text) == SelectSeq(Words(text), EmailPatternMatches)

\* excluded_patterns: 32 hex characters and '@' at the start
HashPatternMatches(e_lower) ==
    /\ Len(e_lower) > HashLen
    /\ \A i \in 1..HashLen : e_lower[i] \in HexChars
    /\ <<e_lower[HashLen + 1]>> = AtSign

\* the loop body of extract_emails: TRUE when the candidate is added
KeepCandidate(e_lower) ==
    LET domain_part == SplitRest(e_lower, AtSign)
        local_part == SplitHead(e_lower, AtSign)
    IN  /\ ~\E x \in excluded_extensions : Find(e_lower, x) > 0
        /\ ~HashPatternMatches(e_lower)
        /\ domain_part \notin excluded_domains
        /\ ~(Cardinality(SeqRange(local_part)) <= SmashChars /\ Len(local_part) > SmashLen)

ExtractEmails(text) ==
    {Lower(e) : e \in {c \in SeqRange(EmailCandidates(text)) : KeepCandidate(Lower(c))}}

WordPool ==
    {<<"B", "o", "b", "@", "A", "c", "m", "e", ".", "t", "e", "s", "t">>,
     <<"j", "o", "h", "n", ".", "d", "o", "e", "@", "e", "x", "a", "m", "p", "l", "e", ".", "c", "o", "m">>,
     <<"0", "1", "2", "3", "4", "5", "6", "7", "8", "9", "a", "b", "c", "d", "e", "f", "0", "1", "2", "3", "4", "5", "6", "7", "8", "9", "a", "b", "c", "d", "e", "f", "@", "a", "c", "m", "e", ".", "t", "e", "s", "t">>,
     <<"a", "a", "a", "a", "a", "@", "a", "c", "m", "e", ".", "t", "e", "s", "t">>,
     <<"a", "b", "a", "b", "@", "a", "c", "m", "e", ".", "t", "e", "s", "t">>,
     <<"l", "o", "g", "o", "@", "2", "x", ".", "p", "n", "g">>,
     <<"j", "o", "h", "n", ".", "d", "o", "c", "@", "a", "c", "m", "e", ".", "t", "e", "s", "t">>,
     <<"h", "e", "l", "l", "o">>,
     <<"b", "o", "b", "@">>}

\* texts of one word, or of two words with a blank between them
EmailTexts ==
    WordPool \cup {a \o <<" ">> \o b : a \in WordPool, b \in WordPool}
    \cup (IF MaxWords > 2
          THEN {a \o <<" ">> \o b \o <<" ">> \o c : a \in WordPool, b \in WordPool, c \in WordPool}
          ELSE {})

ExtractEmailsCall ==
    /\ fn_pc = "extract_emails"
    /\ fn_result' = ExtractEmails(fn_args.text)
    /\ fn_pc' = "extract_emails done"
    /\ UNCHANGED fn_args
    /\ UNCHANGED exceptPure

InitExtract == /\ IdleExceptPure
               /\ fn_args \in [text : EmailTexts]
               /\ fn_pc = "extract_emails"
               /\ fn_result = EmptyDict

NextExtract == ExtractEmailsCall

SpecExtract == InitExtract /\ [][NextExtract]_vars

\* the conditions under which a candidate is to be dropped: placeholder domain,
\* 32 hex characters as local part, a local part longer than 4 with at most 2
\* distinct characters, or a listed extension at the end of the candidate
ToBeDropped(c) ==
    \/ DomainOf(c) \in excluded_domains
    \/ (AllHex(LocalOf(c)) /\ Len(LocalOf(c)) = 32)
    \/ (Len(LocalOf(c)) > 4 /\ Cardinality({LocalOf(c)[i] : i \in DOMAIN LocalOf(c)}) <= 2)
    \/ \E x \in excluded_extensions : EndsWith(Lower(c), x)

\* C15: extract_emails returns, lowercased, exactly the regex candidates of the
\* text that have no placeholder domain, no MD5/UUID-shaped local part, no
\* keyboard-smash local part and no listed extension at their end; an extension
\* elsewhere in the candidate does not drop it.
C15_ExtractEmails ==
    fn_pc = "extract_emails done" =>
        fn_result = {Lower(c) : c \in {w \in SeqRange(EmailCandidates(fn_args.text)) :
                                          ~ToBeDropped(Lower(w))}}

\* =================================================================
\*  fetch_domain_osint (scraper/utils/osint_sources.py)
\* =================================================================
\* ipaddress.ip_address(target) succeeds: four decimal groups of at most three
\* digits, none above 255, none with a leading zero (no target of the model
\* holds a colon, so none is an IPv6 literal)
OctetValue(g) ==
    IF Len(g) = 1 THEN DigitVal(g[1])
    ELSE IF Len(g) = 2 THEN 10 * DigitVal(g[1]) + DigitVal(g[2])
    ELSE 100 * DigitVal(g[1]) + 10 * DigitVal(g[2]) + DigitVal(g[3])

IsIpAddress(target) ==
    LET groups == DotParts(target)
    IN  /\ Len(groups) = 4
        /\ \A n \in 1..4 :
              /\ Len(groups[n]) >= 1 /\ Len(groups[n]) <= 3
              /\ AllDigits(groups[n])
              /\ (Len(groups[n]) > 1 => groups[n][1] # "0")
              /\ OctetValue(groups[n]) <= 255

OsintTargets == {<<"a", "c", "m", "e", ".", "t", "e", "s", "t">>, <<"1", "9", "2", ".", "0", ".", "2", ".", "1">>}

\* api_keys: no entry for Shodan, an empty key, or a key
ApiKeySets == {EmptyDict, [shodan |-> ""], [shodan |-> "KEY"]}

\* what fetch_whois returns: the processed record or {"error": ...}
WhoisOutcomes == {DictN([registrar |-> StrN(1), name_servers |-> ListN(<<StrN(2)>>)]),
                  DictN([error |-> StrN(20)])}

\* what fetch_dns_records returns: {"error", "details"} on NXDOMAIN or without
\* nameservers, {"info"} when no type gave anything, else the records by type;
\* "A" is absent, empty (NoAnswer), a list of addresses, or the one-element
\* list holding the text of a timeout or of another resolver exception
DnsOutcomes == {DictN([error |-> StrN(21), details |-> DictN(EmptyDict)]),
                DictN([info |-> StrN(22)]),
                DictN([MX |-> ListN(<<StrN(5)>>)]),
                DictN([A |-> ListN(<<>>), MX |-> ListN(<<StrN(5)>>)]),
                DictN([A |-> ListN(<<StrN(3)>>)]),
                DictN([A |-> ListN(<<StrN(3), StrN(4)>>)]),
                DictN([A |-> ListN(<<StrN(23)>>)])}

\* the texts that stand for addresses in the records of type A
AddressTexts == {StrN(3), StrN(4)}

\* input() raised (EOFError without a terminal)
NoAnswer == <<"EOFError">>

\* what the user types at the prompt
Answers == {<<"s">>, <<"S">>, <<"n">>, <<>>, NoAnswer}

\* what fetch_shodan returns for a non-empty address list and a key
ShodanOutcomes == {DictN([ip_str |-> StrN(3), org |-> StrN(5)]),
                   DictN([error |-> StrN(24)])}

\* what fetch_wayback_snapshots returns
WaybackOutcomes ==
    {DictN([snapshots |-> ListN(<<DictN([timestamp |-> StrN(6), url |-> StrN(6)])>>)]),
     DictN([info |-> StrN(26)]),
     DictN([error |-> StrN(25)])}

SourceAnswers == [whois : WhoisOutcomes, dns : DnsOutcomes, choice : Answers,
                  shodan : ShodanOutcomes, wayback : WaybackOutcomes]

\* x and not x.get("error")
SourceOk(x) == Truthy(x) /\ ~Truthy(DGet(x, "error", StrN(0)))

\* api_keys.get("shodan"), truthy
ShodanKeyPresent(api_keys) ==
    Get(api_keys, "shodan", Null) # Null /\ Get(api_keys, "shodan", Null) # ""

\* the list handed to fetch_shodan if it is called
ShodanAddresses(target, is_ip, src) ==
    IF is_ip THEN <<target>> ELSE DGet(src.dns, "A", ListN(<<>>)).l

\* the prompt is reached
ShodanAsked(target, api_keys, is_ip, src) ==
    IF is_ip THEN ShodanKeyPresent(api_keys)
    ELSE /\ SourceOk(src.dns)
         /\ ShodanKeyPresent(api_keys)
         /\ Len(ShodanAddresses(target, is_ip, src)) > 0

\* user_choice: input(...).lower(), 'n' when input raised
UserChoice(src) == IF src.choice = NoAnswer THEN <<"n">> ELSE Lower(src.choice)

ShodanCalled(target, api_keys, is_ip, src) ==
    ShodanAsked(target, api_keys, is_ip, src) /\ UserChoice(src) = <<"s">>

WaybackOnlyAfterWhois(is_ip, src) == ~is_ip /\ SourceOk(src.whois)

\* fetch_wayback_snapshots is called
WaybackCalled(is_ip, src) == ~is_ip

fetch_domain_osint(target, api_keys, src) ==
    LET is_ip == IsIpAddress(target)
        shodan_called == ShodanCalled(target, api_keys, is_ip, src)
        wayback_called == WaybackCalled(is_ip, src)
        whois == IF SourceOk(src.whois) THEN [whois |-> src.whois] ELSE EmptyDict
        dns == IF ~is_ip /\ SourceOk(src.dns) THEN [dns |-> src.dns] ELSE EmptyDict
        shodan == IF shodan_called /\ SourceOk(src.shodan)
                  THEN [shodan |-> src.shodan] ELSE EmptyDict
        wayback == IF is_ip THEN [wayback_machine |-> DictN([error |-> StrN(28)])]
                   ELSE IF wayback_called /\ SourceOk(src.wayback)
                   THEN [wayback_machine |-> src.wayback]
                   ELSE [wayback_machine |-> DictN([error |-> StrN(27)])]
    IN  [result |-> DictN(DUpdate(DUpdate(DUpdate(whois, dns), shodan), wayback)),
         queried |-> <<"whois">>
                     \o (IF is_ip THEN <<>> ELSE <<"dns">>)
                     \o (IF shodan_called THEN <<"shodan">> ELSE <<>>)
                     \o (IF wayback_called THEN <<"wayback">> ELSE <<>>),
         asked |-> ShodanAsked(target, api_keys, is_ip, src),
         shodan_addresses |-> IF shodan_called
                              THEN ShodanAddresses(target, is_ip, src) ELSE <<>>]

FetchDomainOsintCall ==
    /\ osint_pc = "fetch_domain_osint"
    /\ osint_out' = fetch_domain_osint(osint_target, osint_api_keys, sources)
    /\ osint_pc' = "done"
    /\ UNCHANGED <<osint_target, osint_api_keys, sources>>
    /\ UNCHANGED exceptOsint

InitOsint == /\ IdleExceptOsint
             /\ osint_target \in OsintTargets
             /\ osint_api_keys \in ApiKeySets
             /\ sources \in SourceAnswers
             /\ osint_pc = "fetch_domain_osint"
             /\ osint_out = EmptyDict

NextOsint == FetchDomainOsintCall

SpecOsint == InitOsint /\ [][NextOsint]_vars

\* ------------------------------------------------------------ C17
SourceNames == {"whois", "dns", "shodan", "wayback"}

ResultKey(s) == IF s = "wayback" THEN "wayback_machine" ELSE s

\* the source was called and answered {"error": ...}
SourceFailed(s) ==
    /\ \E i \in DOMAIN osint_out.queried : osint_out.queried[i] = s
    /\ Truthy(DGet(sources[s], "error", StrN(0)))

\* a Shodan key is configured and the user would answer yes
CredentialAndDecisionHold(s) ==
    s = "shodan" => (ShodanKeyPresent(osint_api_keys) /\ sources.choice \in {<<"s">>, <<"S">>})

\* for Shodan on a hostname, also: DNS succeeded and listed something under A
AddressesKnown(s) ==
    s = "shodan" => (SourceOk(sources.dns)
                     /\ Len(DGet(sources.dns, "A", ListN(<<>>)).l) > 0)

QueriedAndCollected(s) ==
    /\ \E i \in DOMAIN osint_out.queried : osint_out.queried[i] = s
    /\ SourceOk(sources[s]) =>
          /\ ResultKey(s) \in DOMAIN osint_out.result.m
          /\ osint_out.result.m[ResultKey(s)] = sources[s]

\* C17 as stated: while a hostname is profiled, when one source answers with an
\* error payload every other source whose credential and decision preconditions
\* hold is still queried and its successful result is in the returned payload.
C17_FailureIsolated ==
    (osint_pc = "done" /\ ~IsIpAddress(osint_target)) =>
        \A f \in SourceNames : SourceFailed(f) =>
            \A s \in SourceNames \ {f} :
                CredentialAndDecisionHold(s) => QueriedAndCollected(s)

\* C17 (amended): the same, where the Shodan lookup of a hostname also needs a
\* successful DNS answer with a non-empty A list: a DNS failure does take the
\* Shodan lookup with it, every other source is independent of the others.
C17_FailureIsolatedGivenAddresses ==
    (osint_pc = "done" /\ ~IsIpAddress(osint_target)) =>
        \A f \in SourceNames : SourceFailed(f) =>
            \A s \in SourceNames \ {f} :
                (CredentialAndDecisionHold(s) /\ AddressesKnown(s)) => QueriedAndCollected(s)

\* WHOIS failed, and DNS, Shodan and the archive were queried and collected
C17_Witness ==
    /\ osint_pc = "done"
    /\ ~IsIpAddress(osint_target)
    /\ SourceFailed("whois")
    /\ osint_out.queried = <<"whois", "dns", "shodan", "wayback">>
    /\ DOMAIN osint_out.result.m = {"dns", "shodan", "wayback_machine"}
    /\ \A s \in {"dns", "shodan", "wayback"} : SourceOk(sources[s])

\* ------------------------------------------------------------ C19
ShodanQueried == \E i \in DOMAIN osint_out.queried : osint_out.queried[i] = "shodan"

\* DNS succeeded and its answer lists at least one address under A
DnsGaveAddress ==
    /\ SourceOk(sources.dns)
    /\ \E i \in DOMAIN DGet(sources.dns, "A", ListN(<<>>)).l :
          DGet(sources.dns, "A", ListN(<<>>)).l[i] \in AddressTexts

\* what the sources other than Shodan delivered is in the returned payload
OtherDataReturned ==
    /\ SourceOk(sources.whois) => DGet(osint_out.result, "whois", StrN(0)) = sources.whois
    /\ (~IsIpAddress(osint_target) /\ SourceOk(sources.dns)) =>
          DGet(osint_out.result, "dns", StrN(0)) = sources.dns
    /\ (~IsIpAddress(osint_target) /\ SourceOk(sources.wayback)) =>
          DGet(osint_out.result, "wayback_machine", StrN(0)) = sources.wayback

\* C19: fetch_shodan is called during domain profiling only if a Shodan key is
\* configured, the user answered yes and, for a hostname, DNS returned at least
\* one A record; when no answer can be obtained the lookup is skipped and the
\* data of the other sources is still returned.
C19_ShodanGated ==
    osint_pc = "done" =>
        /\ ShodanQueried =>
              /\ ShodanKeyPresent(osint_api_keys)
              /\ sources.choice \in {<<"s">>, <<"S">>}
              /\ ~IsIpAddress(osint_target) => DnsGaveAddress
        /\ sources.choice = NoAnswer => (~ShodanQueried /\ OtherDataReturned)

\* =================================================================
\*  The credential-gated adapters (scraper/utils/clients.py)
\* =================================================================
\* api_key: None, an empty text or a key
OptionalKeys == {Null, "", "KEY"}

AdapterEmails == {"bob@acme.test"}

\* requests.get for Hunter.io, raise_for_status and response.json(): a body, an
\* empty body, or one of the exceptions the function catches
HunterResponses ==
    {[t |-> "json", body |-> [data |-> [status |-> "valid", score |-> 90]]],
     [t |-> "empty"],
     [t |-> "HTTPError"], [t |-> "ReadTimeout"], [t |-> "RequestException"],
     [t |-> "JSONDecodeError"], [t |-> "Exception"]}

\* requests.get for HIBP: the status with the decoded body, or an exception
BreachResponses ==
    {[t |-> "status", code |-> 200, body |-> <<[Name |-> "Adobe"]>>],
     [t |-> "status", code |-> 404],
     [t |-> "status", code |-> 401],
     [t |-> "RequestException"], [t |-> "JSONDecodeError"], [t |-> "Exception"]}

DictRet(d) == [t |-> "dict", v |-> d]
ListRet(l) == [t |-> "list", v |-> l]

\* fetch_hunterio(email, api_key)
fetch_hunterio(email, key, response) ==
    IF key = Null \/ key = ""
    THEN [ret |-> DictRet([error |-> "API key for Hunter.io not provided"]),
          requests |-> <<>>]
    ELSE [ret |-> CASE response.t = "json" -> DictRet(response.body)
                    [] response.t = "empty" ->
                           DictRet([error |-> "Empty response from Hunter.io"])
                    [] OTHER -> DictRet([error |-> response.t]),
          requests |-> <<<<"api.hunter.io", email, key>>>>]

\* check_email_breaches(email, api_key)
check_email_breaches(email, key, response) ==
    IF key = Null \/ key = ""
    THEN [ret |-> ListRet(<<>>), requests |-> <<>>]
    ELSE [ret |-> IF response.t = "status" /\ response.code = 200
                  THEN ListRet(response.body) ELSE ListRet(<<>>),
          requests |-> <<<<"haveibeenpwned.com", email, key>>>>]

HunterioCall ==
    /\ ad_pc = "idle"
    /\ \E email \in AdapterEmails, key \in OptionalKeys, response \in HunterResponses :
          /\ ad_call' = [adapter |-> "fetch_hunterio", email |-> email, api_key |-> key]
          /\ ad_ret' = fetch_hunterio(email, key, response).ret
          /\ ad_requests' = fetch_hunterio(email, key, response).requests
    /\ ad_pc' = "done"
    /\ UNCHANGED exceptAdapter

BreachesCall ==
    /\ ad_pc = "idle"
    /\ \E email \in AdapterEmails, key \in OptionalKeys, response \in BreachResponses :
          /\ ad_call' = [adapter |-> "check_email_breaches", email |-> email, api_key |-> key]
          /\ ad_ret' = check_email_breaches(email, key, response).ret
          /\ ad_requests' = check_email_breaches(email, key, response).requests
    /\ ad_pc' = "done"
    /\ UNCHANGED exceptAdapter

InitAdapters == /\ IdleExceptShodanAdapter
                /\ sh_pc = "idle"
                /\ ip_addresses = <<>>
                /\ api_key = ""
                /\ results = EmptyDict
                /\ sh_i = 0
                /\ sh_outcomes = <<>>
                /\ sh_ret = EmptyDict
                /\ ad_pc = "idle"
                /\ ad_call = EmptyDict
                /\ ad_requests = <<>>
                /\ ad_ret = EmptyDict

NextAdapters == HunterioCall \/ BreachesCall \/ ShodanStart \/ ShodanQuery \/ ShodanFinish

SpecAdapters == InitAdapters /\ [][NextAdapters]_vars

\* the value is a dict with an "error" entry
IsErrorPayload(r) == r.t = "dict" /\ "error" \in DOMAIN r.v

\* C18: when no key is given, fetch_hunterio, check_email_breaches and
\* fetch_shodan each return an {error: ...} payload and send no request.
C18_NoKeyShortCircuits ==
    /\ (ad_pc = "done" /\ ad_call.api_key \in {Null, ""}) =>
          (IsErrorPayload(ad_ret) /\ ad_requests = <<>>)
    /\ (sh_pc = "done" /\ api_key = "") =>
          ("error" \in DOMAIN sh_ret /\ sh_outcomes = <<>>)

\* =================================================================
\*  profile_domain / profile_email (scraper/extractors/osint_extractor.py)
\* =================================================================
MaxIntakeCalls == 2

\* the store keeps names as atoms: the atom of a text; None is stored as NULL
Atom(text) ==
    CASE text = <<"a", "c", "m", "e", ".", "t", "e", "s", "t">> -> "acme.test"
      [] text = <<"e", "x", "a", "m", "p", "l", "e", ".", "c", "o", "m">> -> "example.com"
      [] text = <<"b", "o", "b", "@", "a", "c", "m", "e", ".", "t", "e", "s", "t">> -> "bob@acme.test"
      [] text = <<"j", ".", "d", "o", "e">> -> "j.doe"
      [] text = <<"j", "d", "o", "e">> -> "jdoe"
      [] OTHER -> Null

\* inputs of profile_domain; NullText is None
DomainInputs == {NullText, <<>>, <<" ", " ">>, <<"n", "o", "t", " ", "a", " ", "d", "o", "m", "a", "i", "n">>, <<"-", "b", "a", "d", ".", "t", "e", "s", "t">>, <<"a", "c", "m", "e">>,
                 <<"a", "c", "m", "e", ".", "t", "e", "s", "t">>, <<" ", "H", "T", "T", "P", ":", "/", "/", "W", "W", "W", ".", "A", "c", "m", "e", ".", "t", "e", "s", "t", "/", "x", " ">>, <<"e", "x", "a", "m", "p", "l", "e", ".", "c", "o", "m">>}

\* inputs of profile_email
EmailInputs == {NullText, <<>>, <<" ">>, <<"b", "o", "b", "@">>, <<"b", "o", "b", "@", "a", "c", "m", "e">>, <<"b", "o", "b", " ", "a", "c", "m", "e", ".", "t", "e", "s", "t">>,
                <<"b", "o", "b", "@", "@", "a", "c", "m", "e", ".", "t", "e", "s", "t">>, <<"b", "o", "b", "@", "a", "c", "m", "e", ".", "t", "e", "s", "t">>, <<" ", "b", "o", "b", "@", "a", "c", "m", "e", ".", "t", "e", "s", "t", " ">>}

\* email_pattern of profile_email: ^[a-zA-Z0-9._%+-]+@[a-zA-Z0-9.-]+\.[a-zA-Z]{2,}$
\* on a stripped text: one '@', a local part, and after it a text whose last
\* dot is followed by two or more letters and preceded by at least a character
EmailFormatMatches(email) ==
    /\ Cardinality({i \in DOMAIN email : <<email[i]>> = AtSign}) = 1
    /\ LET local == SplitHead(email, AtSign)
           rest == SplitRest(email, AtSign)
           dots == {i \in DOMAIN rest : rest[i] = "."}
       IN  /\ Len(local) >= 1
           /\ \A i \in DOMAIN local : local[i] \in AlphaNum \cup {".", "_", "%", "+", "-"}
           /\ dots # {}
           /\ Max(dots) >= 2
           /\ Len(rest) - Max(dots) >= 2
           /\ \A i \in DOMAIN rest :
                 IF i > Max(dots) THEN rest[i] \in Letters \cup UpperLetters
                 ELSE rest[i] \in AlphaNum \cup {".", "-"}

\* fetch_email_osint: what fetch_hunterio and check_email_breaches answer
EmailSourceAnswers ==
    [hunterio : {DictN([data |-> DictN([status |-> StrN(30), score |-> IntN(90)])]),
                 DictN([error |-> StrN(31)])},
     breaches : {ListN(<<>>), ListN(<<DictN([Name |-> StrN(32)])>>)}]

KeyPresent(api_keys, service) ==
    Get(api_keys, service, Null) # Null /\ Get(api_keys, service, Null) # ""

fetch_email_osint(email, api_keys, src) ==
    LET hunter == IF KeyPresent(api_keys, "hunterio")
                  THEN (IF SourceOk(src.hunterio) THEN [hunterio |-> src.hunterio]
                        ELSE EmptyDict)
                  ELSE [hunterio |-> DictN([error |-> StrN(36)])]
        breaches == IF KeyPresent(api_keys, "hibp")
                    THEN (IF Truthy(src.breaches) THEN [breaches |-> src.breaches]
                          ELSE EmptyDict)
                    ELSE [breaches |-> DictN([error |-> StrN(37)]),
                          basic_analysis |-> DictN([domain |-> StrN(33),
                                                    provider_type |-> StrN(34),
                                                    note |-> StrN(35)])]
    IN  [result |-> DictN(DUpdate(hunter, breaches)),
         queried |-> (IF KeyPresent(api_keys, "hunterio") THEN <<"hunterio">> ELSE <<>>)
                     \o (IF KeyPresent(api_keys, "hibp") THEN <<"hibp">> ELSE <<>>)]

\* the answers the domain sources give in the runs of the extractor
IntakeSourceAnswers ==
    {s \in SourceAnswers :
        /\ s.choice = <<"s">>
        /\ SourceOk(s.shodan)
        /\ "snapshots" \in DOMAIN s.wayback.m
        /\ s.dns \in {DictN([error |-> StrN(21), details |-> DictN(EmptyDict)]),
                      DictN([A |-> ListN(<<StrN(3)>>)])}}

\* A stored JSON column is the text json.dumps wrote ([json |-> value]), a text
\* that is not JSON ([malformed |-> n]), or NULL / the empty text (EmptyColumn).
EmptyColumn == [empty |-> TRUE]

MalformedJson(n) == [malformed |-> n]

\* json.loads(text) raises json.JSONDecodeError
DecodeFails(text) == "malformed" \in DOMAIN text

\* json.loads(column) if column else {}
LoadColumn(text) == IF "empty" \in DOMAIN text THEN DictN(EmptyDict) ELSE JsonLoads(text)

ProfileEntryWithoutMarker(p) ==
    [extracted |-> IF DecodeFails(p.extracted_fields) THEN DictN(EmptyDict)
                   ELSE LoadColumn(p.extracted_fields),
     raw |-> IF DecodeFails(p.raw_data) THEN DictN(EmptyDict) ELSE LoadColumn(p.raw_data),
     updated_at |-> p.updated_at]

\* the entry of one osint_profiles row in profiles_data: both columns decoded, or,
\* when json.loads raised JSONDecodeError on either, the error marker with the
\* stored raw text
ProfileEntry(p) ==
    IF DecodeFails(p.extracted_fields) \/ DecodeFails(p.raw_data)
    THEN [error |-> "Failed to decode profile data", updated_at |-> p.updated_at,
          raw |-> p.raw_data]
    ELSE [extracted |-> LoadColumn(p.extracted_fields), raw |-> LoadColumn(p.raw_data),
          updated_at |-> p.updated_at]

\* _build_full_profile(entity_id) on the rows given
BuildFullProfile(rows, profiles, contact_rows, entity_id) ==
    LET found == {e \in rows : e.id = entity_id}
        mine == {p \in profiles : p.entity_id = entity_id}
    IN  IF found = {} THEN [error |-> "Entity not found"]
        ELSE [entity |-> CHOOSE e \in found : TRUE,
              domain_info |-> Null,
              profiles |-> [src \in {p.source : p \in mine} |->
                              ProfileEntry(CHOOSE q \in mine : q.source = src)],
              contacts |-> {c \in contact_rows : c.entity_id = entity_id}]

\* source_type_for_saving
SourceTypeForSaving(entity_type) == IF entity_type = "username" THEN "social" ELSE entity_type

\* the snapshot rows after _save_osint_profile: the upsert committed, or, when
\* the write raised, the rows as they were (the transaction rolled back)
SnapshotsAfterSave(rows, upserted, write_fails) == IF write_fails THEN rows ELSE upserted

AfterSaveErrorSurfaces(profile, write_fails) ==
    IF write_fails THEN [error |-> "Error saving profile"] ELSE profile

\* entity() after the save: an exception of _save_osint_profile is logged and
\* the profile is built all the same
AfterSaveError(profile, write_fails) == profile

\* entity(target, entity_type) with what the sources fetched and whether the
\* snapshot write raises: resolve the entity, save a non-empty payload as the
\* snapshot of the source, build the profile.  For "username" the call
\* fetch_social_osint(target, logger=self.logger) lacks the argument dirs and
\* raises TypeError after the entity was resolved.
EntityRun(target, entity_type, fetched, call, write_fails) ==
    LET type == DbEntityType(entity_type)
        domain == DomainValue(target, entity_type)
        source == SourceTypeForSaving(entity_type)
        ins == InsertOrIgnoreEntity(entities, type, target, domain)
        found == SelectEntityIds(entities, target, type, domain)
    IN  /\ ins.rowcount = 0 \/ Cardinality(entities) < MaxEntities
        /\ IF ins.rowcount = 0 /\ found = {}
           THEN \* ValueError leaves _get_or_create_entity and entity
                /\ pf_call' = call
                /\ pf_ret' = [raised |-> "ValueError"]
                /\ pf_adapters' = <<>>
                /\ UNCHANGED <<entities, osint_profiles, returned>>
           ELSE \E entity_id \in (IF ins.rowcount > 0 THEN {ins.lastrowid} ELSE found) :
                IF entity_type = "username"
                THEN /\ pf_call' = call @@ [entity_id |-> entity_id]
                     /\ entities' = ins.rows
                     /\ returned' = [returned EXCEPT ![<<target, entity_type>>] = entity_id]
                     /\ pf_adapters' = <<>>
                     /\ osint_profiles' = osint_profiles
                     /\ pf_ret' = [raised |-> "TypeError"]
                ELSE
                /\ \/ ~Truthy(fetched.result)
                   \/ \E r \in osint_profiles : r.entity_id = entity_id /\ r.source = source
                   \/ Cardinality(osint_profiles) < MaxProfiles
                /\ pf_call' = call @@ [entity_id |-> entity_id, fetched |-> fetched.result,
                                       write_failed |-> Truthy(fetched.result) /\ write_fails]
                /\ entities' = ins.rows
                /\ returned' = [returned EXCEPT ![<<target, entity_type>>] = entity_id]
                /\ pf_adapters' = fetched.queried
                /\ osint_profiles' =
                       IF Truthy(fetched.result)
                       THEN SnapshotsAfterSave(
                                osint_profiles,
                                UpsertProfile(osint_profiles, entity_id, source,
                                              JsonDumps(standardize_for_json(fetched.result)),
                                              JsonDumps(extract_structured_fields(fetched.result,
                                                                                  source)),
                                              db_now),
                                write_fails)
                       ELSE osint_profiles
                /\ pf_ret' = AfterSaveError(
                                 BuildFullProfile(entities', osint_profiles', contacts, entity_id),
                                 Truthy(fetched.result) /\ write_fails)
        /\ dbOp' = [op |-> "entity", identifier |-> target, entity_type |-> entity_type]

\* entity() on a store that accepts the write
Entity(target, entity_type, fetched, call) ==
    EntityRun(target, entity_type, fetched, call, FALSE)

\* the call returns an error payload at once
Rejected(call, payload) ==
    /\ pf_call' = call
    /\ pf_ret' = payload
    /\ pf_adapters' = <<>>
    /\ UNCHANGED <<entities, osint_profiles, returned, dbOp>>

DomainRejectedOnlyNone(domain) == domain = NullText

\* profile_domain returns before entity(): None, or validate_domain says no
DomainRejected(domain) == domain = NullText \/ ~validate_domain(domain).ok

\* profile_email returns before entity(): falsy input, or the pattern fails
EmailRejected(email) ==
    email = NullText \/ email = <<>> \/ ~EmailFormatMatches(Strip(email))

CallRecord(op, input) ==
    [op |-> op, input |-> input,
     before |-> [entities |-> entities, osint_profiles |-> osint_profiles,
                 contacts |-> contacts]]

\* profile_domain(domain), with what the sources answer and whether the
\* snapshot write raises
ProfileDomain(domain, src, write_fails) ==
    IF DomainRejected(domain)
    THEN Rejected(CallRecord("profile_domain", domain),
                  IF domain = NullText
                  THEN [error |-> "Input domain cannot be None"]
                  ELSE [error |-> "Invalid domain format: None",
                        original_input |-> domain])
    ELSE EntityRun(Atom(validate_domain(domain).domain), "domain",
                   fetch_domain_osint(validate_domain(domain).domain, pf_api_keys, src),
                   CallRecord("profile_domain", domain), write_fails)

\* profile_email(email), likewise
ProfileEmail(email, src, write_fails) ==
    IF EmailRejected(email)
    THEN Rejected(CallRecord("profile_email", email),
                  IF email = NullText \/ email = <<>>
                  THEN [error |-> "Invalid email input provided.",
                        original_input |-> email]
                  ELSE [error |-> "Invalid email format provided.",
                        original_input |-> Strip(email)])
    ELSE EntityRun(Atom(Strip(email)), "email",
                   fetch_email_osint(Strip(email), pf_api_keys, src),
                   CallRecord("profile_email", email), write_fails)

\* the calls of this component run on a store that accepts every write
ProfileDomainCall ==
    /\ pf_calls < MaxIntakeCalls
    /\ pf_calls' = pf_calls + 1
    /\ \E domain \in DomainInputs, src \in IntakeSourceAnswers :
          ProfileDomain(domain, src, FALSE)
    /\ UNCHANGED <<pf_api_keys, contacts, db_now>>
    /\ UNCHANGED exceptDbIntake

ProfileEmailCall ==
    /\ pf_calls < MaxIntakeCalls
    /\ pf_calls' = pf_calls + 1
    /\ \E email \in EmailInputs, src \in EmailSourceAnswers :
          ProfileEmail(email, src, FALSE)
    /\ UNCHANGED <<pf_api_keys, contacts, db_now>>
    /\ UNCHANGED exceptDbIntake

IntakeKeySets == {EmptyDict, [shodan |-> "KEY", hunterio |-> "KEY", hibp |-> "KEY"]}

InitIntake == /\ IdleExceptDbIntake
              /\ entities = {}
              /\ osint_profiles = {}
              /\ contacts = {}
              /\ db_now = 0
              /\ dbOp = [op |-> "none"]
              /\ returned = [k \in Identifiers \X EntityTypes |-> 0]
              /\ pf_api_keys \in IntakeKeySets
              /\ pf_calls = 0
              /\ pf_call = [op |-> "none"]
              /\ pf_ret = EmptyDict
              /\ pf_adapters = <<>>

IntakeTick == /\ db_now < MaxDbTime
              /\ db_now' = db_now + 1
              /\ UNCHANGED <<entities, osint_profiles, contacts, dbOp, returned>>
              /\ UNCHANGED intakeVars
              /\ UNCHANGED exceptDbIntake

NextIntake == ProfileDomainCall \/ ProfileEmailCall \/ IntakeTick

SpecIntake == InitIntake /\ [][NextIntake]_vars

\* the identifier of the last call is None, empty, or fails the format check
MalformedIdentifier ==
    /\ pf_call.op \in {"profile_domain", "profile_email"}
    /\ \/ pf_call.input = NullText
       \/ pf_call.input = <<>>
       \/ pf_call.op = "profile_domain" /\ ~validate_domain(pf_call.input).ok
       \/ pf_call.op = "profile_email" /\ ~EmailFormatMatches(Strip(pf_call.input))

\* C16: profile_domain and profile_email answer a malformed identifier with a
\* top-level error payload, having called no source adapter and having left
\* every entity, snapshot and contact row as it was.
C16_MalformedRejected ==
    MalformedIdentifier =>
        /\ "error" \in DOMAIN pf_ret
        /\ pf_adapters = <<>>
        /\ entities = pf_call.before.entities
        /\ osint_profiles = pf_call.before.osint_profiles
        /\ contacts = pf_call.before.contacts

\* a malformed domain was rejected on a store that already held rows
C16_Witness ==
    /\ MalformedIdentifier
    /\ pf_call.op = "profile_domain"
    /\ pf_call.input = <<"n", "o", "t", " ", "a", " ", "d", "o", "m", "a", "i", "n">>
    /\ "error" \in DOMAIN pf_ret
    /\ pf_call.before.entities # {}
    /\ pf_call.before.osint_profiles # {}
    /\ entities = pf_call.before.entities

\* =================================================================
\*  DatabaseManager: connect, disconnect, transaction (db/manager.py)
\* =================================================================
MaxOpened == 3
MaxStatements == 2
MaxTransactions == 2

\* self.databases
databases == {"websites", "osint"}

\* names a caller may pass
DbNames == databases \cup {"archive"}

\* values of the rows written by the statements of a body
RowValues == {1, 2}

\* the statements of a body: an INSERT of a row or a DELETE of all rows
Statements == {[sql |-> "INSERT", row |-> v] : v \in RowValues} \cup {[sql |-> "DELETE"]}

Execute(rows, statement) ==
    IF statement.sql = "INSERT" THEN rows \cup {statement.row} ELSE {}

ConnectAlwaysOpens(db_name) == FALSE

\* connect: the store has a connection already
ConnectReuses(db_name) == connections[db_name] # 0

\* connect(db_name) with the outcome of sqlite3.connect; the result as
\* [ret, connections, live, opened]
connect(db_name, opens) ==
    IF db_name \notin databases
    THEN [ret |-> FALSE, connections |-> connections, live |-> live, opened |-> opened]
    ELSE IF ConnectReuses(db_name)
    THEN [ret |-> TRUE, connections |-> connections, live |-> live, opened |-> opened]
    ELSE IF opens
    THEN [ret |-> TRUE,
          connections |-> [connections EXCEPT ![db_name] = opened + 1],
          live |-> [live EXCEPT ![db_name] = @ \cup {opened + 1}],
          opened |-> opened + 1]
    ELSE [ret |-> FALSE, connections |-> connections, live |-> live, opened |-> opened]

\* no transaction body is running
NoBody == tx.pc # "body"

ConnectCall ==
    /\ NoBody
    /\ opened < MaxOpened
    /\ \E db_name \in DbNames, opens \in BOOLEAN :
          \E c \in {connect(db_name, opens)} :
             /\ connections' = c.connections
             /\ live' = c.live
             /\ opened' = c.opened
             /\ last_connect' = [db_name |-> db_name,
                                 had |-> IF db_name \in databases
                                         THEN connections[db_name] ELSE 0,
                                 got |-> IF db_name \in databases
                                         THEN c.connections[db_name] ELSE 0,
                                 ret |-> c.ret]
    /\ UNCHANGED <<committed, view, tx>>
    /\ UNCHANGED exceptManager

\* disconnect(db_name): close the connection; what was not committed is lost
DisconnectCall ==
    /\ NoBody
    /\ \E db_name \in databases :
          /\ connections[db_name] # 0
          /\ live' = [live EXCEPT ![db_name] = @ \ {connections[db_name]}]
          /\ connections' = [connections EXCEPT ![db_name] = 0]
          /\ view' = [view EXCEPT ![db_name] = committed[db_name]]
    /\ UNCHANGED <<opened, committed, tx, last_connect>>
    /\ UNCHANGED exceptManager

\* transaction(db_name) up to the yield: connect, or ConnectionError
TransactionEnter ==
    /\ NoBody
    /\ opened < MaxOpened
    /\ tx.n < MaxTransactions
    /\ \E db_name \in DbNames, opens \in BOOLEAN :
          \E c \in {connect(db_name, opens)} :
             /\ connections' = c.connections
             /\ live' = c.live
             /\ opened' = c.opened
             /\ tx' = [pc |-> IF c.ret THEN "body" ELSE "refused",
                       n |-> tx.n + 1,
                       db_name |-> db_name,
                       before |-> IF db_name \in databases THEN committed[db_name] ELSE {},
                       statements |-> <<>>,
                       raised |-> IF c.ret THEN "" ELSE "ConnectionError"]
    /\ UNCHANGED <<committed, view, last_connect>>
    /\ UNCHANGED exceptManager

\* the body executes a statement on the cursor
BodyExecute ==
    /\ tx.pc = "body"
    /\ Len(tx.statements) < MaxStatements
    /\ \E statement \in Statements :
          /\ view' = [view EXCEPT ![tx.db_name] = Execute(@, statement)]
          /\ tx' = [tx EXCEPT !.statements = Append(@, statement)]
    /\ UNCHANGED <<connections, live, opened, committed, last_connect>>
    /\ UNCHANGED exceptManager

\* the body ends without an exception: connection.commit()
BodyReturns ==
    /\ tx.pc = "body"
    /\ committed' = [committed EXCEPT ![tx.db_name] = view[tx.db_name]]
    /\ tx' = [tx EXCEPT !.pc = "committed"]
    /\ UNCHANGED <<connections, live, opened, view, last_connect>>
    /\ UNCHANGED exceptManager

RollbackKeepsWrites(rows, durable) == rows

\* connection.rollback(): the connection sees the durable rows again
Rollback(rows, durable) == durable

\* the body raises an Exception: connection.rollback(), then raise
BodyRaises ==
    /\ tx.pc = "body"
    /\ view' = [view EXCEPT ![tx.db_name] = Rollback(@, committed[tx.db_name])]
    /\ tx' = [tx EXCEPT !.pc = "rolled back", !.raised = "Exception"]
    /\ UNCHANGED <<connections, live, opened, committed, last_connect>>
    /\ UNCHANGED exceptManager

InitManager == /\ IdleExceptManager
               /\ connections = [d \in databases |-> 0]
               /\ live = [d \in databases |-> {}]
               /\ opened = 0
               /\ committed = [d \in databases |-> {}]
               /\ view = [d \in databases |-> {}]
               /\ tx = [pc |-> "none", n |-> 0]
               /\ last_connect = [db_name |-> "none"]

NextManager == ConnectCall \/ DisconnectCall \/ TransactionEnter \/ BodyExecute
               \/ BodyReturns \/ BodyRaises

SpecManager == InitManager /\ [][NextManager]_vars

\* the rows after the statements of the body, one after the other
RECURSIVE AfterStatements(_, _)
AfterStatements(rows, statements) ==
    IF statements = <<>> THEN rows
    ELSE AfterStatements(Execute(rows, Head(statements)), Tail(statements))

\* C20: a transaction whose body ended normally has committed all its
\* statements; one whose body raised has rolled back, so that no write of the
\* body is visible, and has raised again; a connected store has exactly one
\* live connection, and connect on a connected store keeps it.
C20_TransactionAtomic ==
    /\ tx.pc = "committed" =>
          /\ committed[tx.db_name] = AfterStatements(tx.before, tx.statements)
          /\ view[tx.db_name] = committed[tx.db_name]
          /\ tx.raised = ""
    /\ tx.pc = "rolled back" =>
          /\ committed[tx.db_name] = tx.before
          /\ view[tx.db_name] = tx.before
          /\ tx.raised = "Exception"
    /\ \A d \in databases : connections[d] # 0 => live[d] = {connections[d]}
    /\ (last_connect.db_name \in databases /\ last_connect.had # 0) =>
          (last_connect.ret /\ last_connect.got = last_connect.had)

\* a body that had changed the rows of a non-empty store raised and left them
C20_Witness ==
    /\ tx.pc = "rolled back"
    /\ tx.before # {}
    /\ AfterStatements(tx.before, tx.statements) # tx.before
    /\ view[tx.db_name] = tx.before
    /\ last_connect.db_name = tx.db_name
    /\ last_connect.had # 0

\* =================================================================
\*  WebFetcher: the gap before every request, and the status of a response
\* =================================================================
\* the latest request of the fetcher had a request before it
HasRequestBefore == fcall.kind # "none" /\ fcall.lastAt >= 0 /\ fcall.prevReqAt >= 0

\* C28: for one WebFetcher, any two consecutive outbound requests (the attempts of
\* one call, and the last attempt of a call followed by the first attempt of the
\* next call) start at least delay_range[0] seconds apart, for every delay_range
\* and every number of retries.
C28_EveryRequestGap ==
    HasRequestBefore => fcall.lastAt - fcall.prevReqAt >= delay_min

\* the part of C28 that the code keeps: the first request of a call starts at
\* least delay_range[0] after the first request of the call before it, and a
\* retry starts at least two seconds after the attempt before it
RequestGapsKept ==
    /\ (fcall.kind # "none" /\ fcall.firstAt >= 0 /\ fcall.prevFirstAt >= 0) =>
          fcall.firstAt - fcall.prevFirstAt >= delay_min
    /\ (HasRequestBefore /\ fcall.requests > 1) =>
          fcall.lastAt - fcall.prevReqAt >= 2 * (fcall.requests - 1)

\* C29: fetch_full_response ends at the first attempt that gets an HTTP response
\* and returns it as a FetchResponse with the status code it came with, 4xx and
\* 5xx included; an attempt is repeated only after a transport failure
\* (RequestException).  fetch therefore returns the decoded body of an error page
\* like that of a page served with 200, and None for a response with an empty
\* body.
C29_AnyStatusReturned ==
    (fcall.kind # "none" /\ fcall.requests > 0) =>
        IF fcall.got.t = "response"
        THEN /\ FetchDone
             /\ fcall.requests = fcall.attempt + 1
             /\ fcall.kind = "full" =>
                   fcall.result = [t |-> "FetchResponse", status_code |-> fcall.got.status,
                                   content |-> fcall.got.content]
             /\ fcall.kind = "fetch" =>
                   fcall.result = IF fcall.got.content = "" THEN [t |-> "None"]
                                  ELSE [t |-> "str", text |-> Decode(fcall.got.content)]
        ELSE /\ fcall.attempt = fcall.requests
             /\ FetchDone => (fcall.result = [t |-> "None"] /\ fcall.requests = fcall.retries)

\* fetch got a transport failure, tried again, received a 404 page with a body
\* and returned the text of that page
C29_Witness ==
    /\ FetchDone
    /\ fcall.kind = "fetch"
    /\ fcall.requests = 2 /\ fcall.attempt = 1
    /\ fcall.got = [t |-> "response", status |-> 404, content |-> "<html>"]
    /\ fcall.result = [t |-> "str", text |-> Decode("<html>")]

\* =================================================================
\*  OSINTExtractor: profiling and lookup entry points on one store
\* =================================================================
\* the characters of a stored name
IdentifierText(identifier) ==
    CASE identifier = "acme.test" -> <<"a", "c", "m", "e", ".", "t", "e", "s", "t">>
      [] identifier = "example.com" -> <<"e", "x", "a", "m", "p", "l", "e", ".", "c", "o", "m">>
      [] identifier = "bob@acme.test" -> <<"b", "o", "b", "@", "a", "c", "m", "e", ".", "t", "e", "s", "t">>
      [] identifier = "j.doe" -> <<"j", ".", "d", "o", "e">>
      [] identifier = "jdoe" -> <<"j", "d", "o", "e">>
      [] OTHER -> <<>>

\* what a function returns when it returns None
NoneRet == [t |-> "None"]

\* entity_type_guess of get_osint_profile_by_identifier
EntityTypeGuess(identifier) ==
    IF Find(IdentifierText(identifier), <<".">>) > 0 /\ Find(IdentifierText(identifier), AtSign) = 0
    THEN "domain"
    ELSE IF Find(IdentifierText(identifier), AtSign) > 0 THEN "email"
    ELSE "username"

\* get_osint_profile_by_identifier(identifier): SELECT id FROM entities WHERE
\* name = ? AND type = <guessed>, fetchone() (any matching row: the statement has
\* no ORDER BY), then _build_full_profile, or None
GetProfileByIdentifier(identifier) ==
    LET type == DbEntityType(EntityTypeGuess(identifier))
        ids == {e.id : e \in {x \in entities : x.name = identifier /\ x.type = type}}
    IN  /\ pf_call' = CallRecord("get_by_identifier", identifier) @@ [last |-> dbOp]
        /\ pf_adapters' = <<>>
        /\ IF ids = {} THEN pf_ret' = NoneRet
           ELSE \E id \in ids :
                    pf_ret' = BuildFullProfile(entities, osint_profiles, contacts, id)
        /\ UNCHANGED <<pf_api_keys, pf_calls>>
        /\ UNCHANGED dbVars
        /\ UNCHANGED exceptDbIntake

\* get_osint_profile_by_id(entity_id): return self._build_full_profile(entity_id)
GetProfileById(entity_id) ==
    /\ pf_call' = CallRecord("get_by_id", entity_id)
    /\ pf_adapters' = <<>>
    /\ pf_ret' = BuildFullProfile(entities, osint_profiles, contacts, entity_id)
    /\ UNCHANGED <<pf_api_keys, pf_calls>>
    /\ UNCHANGED dbVars
    /\ UNCHANGED exceptDbIntake

\* what the Sherlock run does: profiles found, or a non-zero exit
SocialOutcomes ==
    {[t |-> "ok", profiles |-> SocialPayload.m["profiles"]],
     [t |-> "CalledProcessError"]}

\* fetch_social_osint(username, logger, dirs)
fetch_social_osint(username, out) ==
    IF Strip(username) = <<>>
    THEN [error |-> "Username cannot be empty", profiles |-> DictN(EmptyDict)]
    ELSE IF out.t = "CalledProcessError"
    THEN [error |-> "Sherlock execution failed", profiles |-> DictN(EmptyDict),
          raw_output |-> "No output available"]
    ELSE [profiles |-> out.profiles,
          summary |-> [username |-> Strip(username),
                       profiles_found |-> Cardinality(DOMAIN out.profiles.m)]]

\* profile_username(username): return fetch_social_osint(username, self.logger, self.dirs)
ProfileUsername(username, out) ==
    /\ pf_call' = CallRecord("profile_username", username)
    /\ pf_adapters' = IF Strip(username) = <<>> THEN <<>> ELSE <<"sherlock">>
    /\ pf_ret' = fetch_social_osint(username, out)
    /\ UNCHANGED <<entities, osint_profiles, returned, dbOp>>

\* ---- the runs of the extractor
\* the store file the extractor opens: empty, or left by earlier sessions and
\* other writers of the file, with snapshots that decode and snapshots that do not
SeedEntity == [id |-> 1, type |-> "company", name |-> "acme.test", domain |-> "acme.test"]

SeedSnapshot(source, raw, extracted) == ProfileInsertRow(1, source, raw, extracted, 0)

SeedDomainRaw == JsonDumps(standardize_for_json(DomainPayloadA))

SeedSocialExtracted == JsonDumps(extract_structured_fields(SocialPayload, "social"))

StoreSeeds ==
    {[entities |-> {}, osint_profiles |-> {}],
     [entities |-> {SeedEntity},
      osint_profiles |-> {SeedSnapshot("domain", SeedDomainRaw, MalformedJson(2)),
                          SeedSnapshot("social", MalformedJson(1), SeedSocialExtracted)}]}

ExtractorDomains == {<<"a", "c", "m", "e", ".", "t", "e", "s", "t">>}

ExtractorEmails == {<<"b", "o", "b", "@", "a", "c", "m", "e", ".", "t", "e", "s", "t">>}

ExtractorUsernames == {<<"j", "d", "o", "e">>, <<" ">>}

\* the domain sources all answer (the WHOIS record holds an address and a phone
\* number), or all fail
ExtractorDomainAnswers ==
    {[whois |-> DictN([registrar |-> StrN(1), admin_email |-> StrN(12),
                       phone |-> StrN(11)]),
      dns |-> DictN([A |-> ListN(<<StrN(3)>>)]),
      choice |-> <<"s">>,
      shodan |-> DictN([ip_str |-> StrN(3), org |-> StrN(5)]),
      wayback |-> DictN([snapshots |-> ListN(<<DictN([timestamp |-> StrN(6),
                                                      url |-> StrN(6)])>>)])],
     [whois |-> DictN([error |-> StrN(20)]),
      dns |-> DictN([error |-> StrN(21), details |-> DictN(EmptyDict)]),
      choice |-> <<"s">>,
      shodan |-> DictN([error |-> StrN(24)]),
      wayback |-> DictN([error |-> StrN(25)])]}

\* the email sources both answer
ExtractorEmailAnswers ==
    {[hunterio |-> DictN([data |-> DictN([status |-> StrN(30), email |-> StrN(12)])]),
      breaches |-> ListN(<<DictN([Name |-> StrN(32)])>>)]}

DomainProfiling ==
    /\ pf_calls < MaxIntakeCalls
    /\ pf_calls' = pf_calls + 1
    /\ \E domain \in ExtractorDomains, src \in ExtractorDomainAnswers, write_fails \in BOOLEAN :
          ProfileDomain(domain, src, write_fails)
    /\ UNCHANGED <<pf_api_keys, contacts, db_now>>
    /\ UNCHANGED exceptDbIntake

EmailProfiling ==
    /\ pf_calls < MaxIntakeCalls
    /\ pf_calls' = pf_calls + 1
    /\ \E email \in ExtractorEmails, src \in ExtractorEmailAnswers :
          ProfileEmail(email, src, FALSE)
    /\ UNCHANGED <<pf_api_keys, contacts, db_now>>
    /\ UNCHANGED exceptDbIntake

UsernameProfiling ==
    /\ pf_calls < MaxIntakeCalls
    /\ pf_calls' = pf_calls + 1
    /\ \E username \in ExtractorUsernames, out \in SocialOutcomes :
          ProfileUsername(username, out)
    /\ UNCHANGED <<pf_api_keys, contacts, db_now>>
    /\ UNCHANGED exceptDbIntake

\* entity(username, "username") called directly
EntityUsername ==
    /\ pf_calls < MaxIntakeCalls
    /\ pf_calls' = pf_calls + 1
    /\ \E username \in {<<"j", "d", "o", "e">>} :
          EntityRun(Atom(username), "username", [result |-> EmptyPayload, queried |-> <<>>],
                    CallRecord("entity", username), FALSE)
    /\ UNCHANGED <<pf_api_keys, contacts, db_now>>
    /\ UNCHANGED exceptDbIntake

\* _get_or_create_entity called with an identifier of the type it names
ExtractorResolve ==
    \E k \in {<<"acme.test", "domain">>, <<"j.doe", "username">>} :
        GetOrCreateEntity(k[1], k[2])

LookupById == \E entity_id \in {1, MaxEntities + 1} : GetProfileById(entity_id)

LookupByIdentifier ==
    \E identifier \in {"acme.test", "example.com", "j.doe"} :
        GetProfileByIdentifier(identifier)

InitExtractor ==
    /\ IdleExceptDbIntake
    /\ \E seed \in StoreSeeds : entities = seed.entities /\ osint_profiles = seed.osint_profiles
    /\ contacts = {}
    /\ db_now = 0
    /\ dbOp = [op |-> "none"]
    /\ returned = [k \in Identifiers \X EntityTypes |-> 0]
    /\ pf_api_keys = [shodan |-> "KEY", hunterio |-> "KEY", hibp |-> "KEY"]
    /\ pf_calls = 0
    /\ pf_call = [op |-> "none"]
    /\ pf_ret = EmptyDict
    /\ pf_adapters = <<>>

NextExtractor ==
    \/ DomainProfiling \/ EmailProfiling \/ UsernameProfiling \/ EntityUsername
    \/ ExtractorResolve \/ LookupById \/ LookupByIdentifier

SpecExtractor == InitExtractor /\ [][NextExtractor]_vars

\* ---- a snapshot that does not decode
\* the call returned a profile built by _build_full_profile for a stored entity
ReturnedBuiltProfile == "entity" \in DOMAIN pf_ret

SnapshotsOfReturned == {p \in osint_profiles : p.entity_id = pf_ret.entity.id}

IsMalformedRow(p) ==
    "malformed" \in DOMAIN p.raw_data \/ "malformed" \in DOMAIN p.extracted_fields

\* C21: a profile built for an entity with snapshots, some of which hold malformed
\* JSON, is returned without a top-level error; every snapshot of the entity has
\* its source in the profile; a malformed one carries the inline error marker with
\* the stored raw text, every other one carries its decoded extracted and raw data.
C21_MalformedSnapshotMarked ==
    ReturnedBuiltProfile =>
        /\ "error" \notin DOMAIN pf_ret
        /\ DOMAIN pf_ret.profiles = {p.source : p \in SnapshotsOfReturned}
        /\ \A p \in SnapshotsOfReturned :
              LET entry == pf_ret.profiles[p.source]
              IN  IF IsMalformedRow(p)
                  THEN /\ DOMAIN entry = {"error", "updated_at", "raw"}
                       /\ entry.error = "Failed to decode profile data"
                       /\ entry.raw = p.raw_data
                       /\ entry.updated_at = p.updated_at
                  ELSE /\ DOMAIN entry = {"extracted", "raw", "updated_at"}
                       /\ entry.extracted = LoadColumn(p.extracted_fields)
                       /\ entry.raw = LoadColumn(p.raw_data)
                       /\ entry.updated_at = p.updated_at

\* a profile was read for an entity with two snapshots, one malformed and one that
\* decodes to a non-empty payload
C21_Witness ==
    /\ ReturnedBuiltProfile
    /\ pf_call.op \in {"get_by_id", "get_by_identifier"}
    /\ Cardinality(SnapshotsOfReturned) = 2
    /\ \E p, q \in SnapshotsOfReturned :
          /\ IsMalformedRow(p)
          /\ ~IsMalformedRow(q)
          /\ "error" \in DOMAIN pf_ret.profiles[p.source]
          /\ pf_ret.profiles[q.source].raw # DictN(EmptyDict)

\* ---- a snapshot write that raises
SaveRaised == "write_failed" \in DOMAIN pf_call /\ pf_call.write_failed

\* C22: when _save_osint_profile raises inside a profiling call, no snapshot row
\* has changed (the one stored before for the entity and source is as it was) and
\* the call returns the profile built from the store, without a top-level error.
C22_FailedWriteRolledBack ==
    SaveRaised =>
        /\ osint_profiles = pf_call.before.osint_profiles
        /\ "error" \notin DOMAIN pf_ret
        /\ ReturnedBuiltProfile
        /\ pf_ret.entity.id = pf_call.entity_id
        /\ pf_ret = BuildFullProfile(entities, osint_profiles, contacts, pf_call.entity_id)

\* the write failed on a re-scan: the snapshot stored before is still there and
\* is the one in the returned profile
C22_Witness ==
    /\ SaveRaised
    /\ pf_call.op = "profile_domain"
    /\ \E p \in pf_call.before.osint_profiles :
          /\ p.entity_id = pf_call.entity_id
          /\ p.source = "domain"
          /\ p \in osint_profiles
          /\ ~IsMalformedRow(p)
          /\ pf_ret.profiles["domain"].raw = LoadColumn(p.raw_data)
          /\ pf_ret.profiles["domain"].raw # JsonLoads(JsonDumps(standardize_for_json(pf_call.fetched)))

\* ---- contacts of a profiling call
\* profile_domain or profile_email went through entity() and returned a profile
\* after saving what the sources answered
ProfiledAndSaved ==
    /\ pf_call.op \in {"profile_domain", "profile_email"}
    /\ "fetched" \in DOMAIN pf_call
    /\ ReturnedBuiltProfile
    /\ ~pf_call.write_failed

\* C23: when profile_domain / profile_email has returned, every email and phone
\* found in the collected payload that passes the filters is a contacts row of the
\* entity and is among the contacts of the returned profile.
C23_ContactsExtractedAfterUpsert ==
    ProfiledAndSaved =>
        /\ \A e \in EmailsToSave(pf_call.fetched) :
              /\ \E c \in contacts : c.entity_id = pf_call.entity_id /\ c.email = e
              /\ \E c \in pf_ret.contacts : c.email = e
        /\ \A ph \in PhonesToSave(pf_call.fetched) :
              /\ \E c \in contacts : c.entity_id = pf_call.entity_id /\ c.phone = ph
              /\ \E c \in pf_ret.contacts : c.phone = ph

\* what entity() does keep: the snapshot of the payload is stored, and no
\* contacts row is written by a profiling call
ProfilingStoresSnapshotOnly ==
    ProfiledAndSaved =>
        /\ contacts = pf_call.before.contacts
        /\ Truthy(pf_call.fetched) =>
              \E p \in osint_profiles :
                  /\ p.entity_id = pf_call.entity_id
                  /\ p.raw_data = JsonDumps(standardize_for_json(pf_call.fetched))

C23_PayloadHoldsContacts ==
    /\ ProfiledAndSaved
    /\ EmailsToSave(pf_call.fetched) # {}
    /\ PhonesToSave(pf_call.fetched) # {}

\* ---- profiling a username
\* profile_username returned the findings of a scan
UsernameScanned ==
    /\ pf_call.op = "profile_username"
    /\ "error" \notin DOMAIN pf_ret
    /\ pf_ret.profiles # DictN(EmptyDict)

\* C24: after profile_username(u) completed with data, a person entity named u
\* exists with a stored "social" snapshot, and the returned value is the profile
\* of that entity rebuilt from the store.
C24_UsernameFollowsFlow ==
    UsernameScanned =>
        /\ ReturnedBuiltProfile
        /\ \E e \in entities :
              /\ e.type = DbEntityType("username")
              /\ e.name = Atom(Strip(pf_call.input))
              /\ \E p \in osint_profiles : p.entity_id = e.id /\ p.source = "social"

\* what the code does: profile_username hands back what fetch_social_osint
\* returned and leaves the store alone; entity(u, "username") resolves the entity
\* and then raises TypeError
UsernameScanBypassesStore ==
    /\ pf_call.op = "profile_username" =>
          /\ ~ReturnedBuiltProfile
          /\ "profiles" \in DOMAIN pf_ret
          /\ osint_profiles = pf_call.before.osint_profiles
    /\ pf_call.op = "entity" =>
          /\ pf_ret = [raised |-> "TypeError"]
          /\ osint_profiles = pf_call.before.osint_profiles
          /\ \E e \in entities : e.id = pf_call.entity_id /\ e.name = Atom(pf_call.input)

C24_ScanFoundAccounts ==
    /\ UsernameScanned
    /\ pf_ret.summary.profiles_found > 0
    /\ entities = pf_call.before.entities

\* ---- looking up what is not there
LookedUpById == pf_call.op = "get_by_id"

LookedUpByIdentifier == pf_call.op = "get_by_identifier"

\* C25: get_osint_profile_by_id and get_osint_profile_by_identifier return None
\* when no entity has the id / the identifier, and the profile of such an entity
\* when one exists; a missing entity never gives an error mapping.
C25_MissingIsAbsent ==
    /\ LookedUpById =>
          IF \E e \in pf_call.before.entities : e.id = pf_call.input
          THEN ReturnedBuiltProfile /\ pf_ret.entity.id = pf_call.input
          ELSE pf_ret = NoneRet
    /\ LookedUpByIdentifier =>
          IF \E e \in pf_call.before.entities : e.name = pf_call.input
          THEN ReturnedBuiltProfile /\ pf_ret.entity.name = pf_call.input
          ELSE pf_ret = NoneRet

\* what the code does for a missing entity: an error mapping by id, None by
\* identifier (when no row has the name and the guessed type)
MissingByIdIsErrorMapping ==
    /\ (LookedUpById /\ ~\E e \in pf_call.before.entities : e.id = pf_call.input)
           => pf_ret = [error |-> "Entity not found"]
    /\ (LookedUpByIdentifier /\ ~\E e \in pf_call.before.entities : e.name = pf_call.input)
           => pf_ret = NoneRet

C25_LookedUpMissingId ==
    /\ LookedUpById
    /\ pf_call.before.entities # {}
    /\ ~\E e \in pf_call.before.entities : e.id = pf_call.input

\* ---- the first snapshot of an entity and source
\* the keys under which fetch_domain_osint and fetch_email_osint put what a
\* source adapter returned
SourceResultKeys == {"whois", "dns", "shodan", "wayback_machine", "hunterio", "breaches"}

\* the adapter returned data: a dictionary without "error", or a non-empty list
AnswerOk(x) == IF x.t = "dict" THEN SourceOk(x) ELSE Truthy(x)

AnySourceSucceeded(result) ==
    \E k \in DOMAIN result.m \cap SourceResultKeys : AnswerOk(result.m[k])

\* the profiling call created the snapshot of its entity and source
SnapshotFirstCreated ==
    /\ pf_call.op \in {"profile_domain", "profile_email"}
    /\ "fetched" \in DOMAIN pf_call
    /\ LET source == IF pf_call.op = "profile_domain" THEN "domain" ELSE "email"
       IN  /\ ~\E p \in pf_call.before.osint_profiles :
                  p.entity_id = pf_call.entity_id /\ p.source = source
           /\ \E p \in osint_profiles :
                  p.entity_id = pf_call.entity_id /\ p.source = source

\* C26: a snapshot of (entity, source) is first created only by a profiling run in
\* which at least one source adapter returned data; a run in which every adapter
\* returned an error or nothing leaves the pair without a snapshot.
C26_CreatedOnlyOnSuccess ==
    SnapshotFirstCreated => AnySourceSucceeded(pf_call.fetched)

\* what the code does: the snapshot is written whenever the collected dictionary
\* is non-empty, and that of a hostname always holds "wayback_machine"
CreatedWheneverResultNonEmpty ==
    /\ SnapshotFirstCreated => Truthy(pf_call.fetched)
    /\ (pf_call.op = "profile_domain" /\ "fetched" \in DOMAIN pf_call)
           => "wayback_machine" \in DOMAIN pf_call.fetched.m

C26_CreatedAfterAllFailed ==
    /\ SnapshotFirstCreated
    /\ ~AnySourceSucceeded(pf_call.fetched)
    /\ pf_call.fetched = DictN([wayback_machine |-> DictN([error |-> StrN(27)])])

\* ---- resolving an identifier and looking it up
\* get_osint_profile_by_identifier(x) was called right after
\* _get_or_create_entity(x, t) returned an id
LookedUpAfterResolve ==
    /\ LookedUpByIdentifier
    /\ pf_call.last.op = "resolve"
    /\ pf_call.last.identifier = pf_call.input
    /\ ~pf_call.last.raised

\* C30: after _get_or_create_entity(x, t) returned id e, for t among domain, email
\* and username, get_osint_profile_by_identifier(x) returns the profile of entity
\* e: not None and not the profile of another entity, also for a username with '.'.
C30_ResolveThenLookup ==
    LookedUpAfterResolve =>
        /\ ReturnedBuiltProfile
        /\ pf_ret.entity.id = pf_call.last.ret

\* what the code keeps: the round trip for a domain name
DomainResolveThenLookup ==
    (LookedUpAfterResolve /\ pf_call.last.entity_type = "domain") =>
        /\ ReturnedBuiltProfile
        /\ pf_ret.entity.id = pf_call.last.ret

\* a username with '.' was resolved and the lookup that follows returns None
C30_DottedUsernameLost ==
    /\ LookedUpAfterResolve
    /\ pf_call.last.entity_type = "username"
    /\ pf_call.input = "j.doe"
    /\ \E e \in pf_call.before.entities : e.id = pf_call.last.ret /\ e.name = "j.doe"
    /\ pf_ret = NoneRet

\* =================================================================
\*  Two resolvers calling _get_or_create_entity at the same time
\* =================================================================
\* Each resolver is a process with its own connection to the store file (the
\* DatabaseManager of a process holds one connection per file).  A call is one
\* transaction: INSERT OR IGNORE, then, when the insert was ignored, SELECT, then
\* the commit of the with block.  SQLite lets one connection write at a time:
\* the INSERT takes the write lock and keeps it until commit or rollback; a
\* connection that finds the lock taken waits (timeout=10.0) and then raises
\* sqlite3.OperationalError.
Resolvers == {1, 2}

RaceCalls == {<<"acme.test", "domain">>, <<"bob@acme.test", "email">>, <<"j.doe", "username">>}

\* what the store file holds when the two calls start
RaceStores ==
    {{},
     {[id |-> 1, type |-> "company", name |-> "acme.test", domain |-> "acme.test"]},
     {[id |-> 1, type |-> "person", name |-> "j.doe", domain |-> Null]}}

RaceType(r) == DbEntityType(rc_args[r][2])

RaceDomain(r) == DomainValue(rc_args[r][1], rc_args[r][2])

\* cursor.execute(INSERT OR IGNORE ...): the first statement of the transaction,
\* run on the committed rows once the write lock is free
RaceInsert(r) ==
    LET ins == InsertOrIgnoreEntity(rc_entities, RaceType(r), rc_args[r][1], RaceDomain(r))
    IN  /\ rc_pc[r] = "insert"
        /\ rc_lock = 0
        /\ rc_lock' = r
        /\ IF ins.rowcount > 0
           THEN /\ rc_tx' = [rc_tx EXCEPT ![r] = ins.rows \ rc_entities]
                /\ rc_ret' = [rc_ret EXCEPT ![r] = ins.lastrowid]
                /\ rc_pc' = [rc_pc EXCEPT ![r] = "commit"]
           ELSE /\ rc_pc' = [rc_pc EXCEPT ![r] = "select"]
                /\ UNCHANGED <<rc_tx, rc_ret>>
        /\ UNCHANGED <<rc_entities, rc_args>>
        /\ UNCHANGED exceptRace

\* the other resolver kept the write lock for longer than the timeout: the INSERT
\* raises sqlite3.OperationalError, transaction() rolls back and re-raises
RaceBusy(r) ==
    /\ rc_pc[r] = "insert"
    /\ rc_lock \notin {0, r}
    /\ rc_pc' = [rc_pc EXCEPT ![r] = "OperationalError"]
    /\ UNCHANGED <<rc_entities, rc_args, rc_tx, rc_ret, rc_lock>>
    /\ UNCHANGED exceptRace

\* the SELECT of the ignored-insert branch and fetchone(); ValueError when no row
RaceSelect(r) ==
    LET found == SelectEntityIds(rc_entities, rc_args[r][1], RaceType(r), RaceDomain(r))
    IN  /\ rc_pc[r] = "select"
        /\ IF found = {}
           THEN /\ rc_pc' = [rc_pc EXCEPT ![r] = "ValueError"]
                /\ rc_lock' = 0
                /\ UNCHANGED rc_ret
           ELSE /\ \E id \in found : rc_ret' = [rc_ret EXCEPT ![r] = id]
                /\ rc_pc' = [rc_pc EXCEPT ![r] = "commit"]
                /\ UNCHANGED rc_lock
        /\ UNCHANGED <<rc_entities, rc_args, rc_tx>>
        /\ UNCHANGED exceptRace

\* connection.commit() on leaving the with block; the id is returned
RaceCommit(r) ==
    /\ rc_pc[r] = "commit"
    /\ rc_entities' = rc_entities \cup rc_tx[r]
    /\ rc_tx' = [rc_tx EXCEPT ![r] = {}]
    /\ rc_lock' = 0
    /\ rc_pc' = [rc_pc EXCEPT ![r] = "returned"]
    /\ UNCHANGED <<rc_args, rc_ret>>
    /\ UNCHANGED exceptRace

InitRace ==
    /\ IdleExceptRace
    /\ rc_entities \in RaceStores
    /\ rc_args \in [Resolvers -> RaceCalls]
    /\ rc_pc = [r \in Resolvers |-> "insert"]
    /\ rc_tx = [r \in Resolvers |-> {}]
    /\ rc_ret = [r \in Resolvers |-> 0]
    /\ rc_lock = 0

NextRace ==
    \E r \in Resolvers : RaceInsert(r) \/ RaceBusy(r) \/ RaceSelect(r) \/ RaceCommit(r)

SpecRace == InitRace /\ [][NextRace]_vars

\* both calls were made for the same identifier and type, and both returned
BothReturnedForSame ==
    /\ rc_args[1] = rc_args[2]
    /\ rc_pc[1] = "returned"
    /\ rc_pc[2] = "returned"

RowsNamed(identifier, type) == {e \in rc_entities : e.name = identifier /\ e.type = type}

====
